---------------------------- MODULE Spec2Model ----------------------------
(***************************************************************************)
(* A model of examples/dma-example.c: the TX/RX descriptor rings shared    *)
(* between transmit_packet (process context), device_interrupt (interrupt  *)
(* context) and the device.                                                *)
(*                                                                         *)
(* The ring lock makes the critical sections mutually exclusive; the       *)
(* device is bound by no lock and steps at any time.  Stores to the        *)
(* DMA-coherent descriptor memory are held in the storing CPU's write      *)
(* buffer until a write barrier (wmb) orders them; until then they reach   *)
(* the memory the device reads in any order.                               *)
(***************************************************************************)
EXTENDS Integers, Naturals, Sequences, FiniteSets, TLC

(* ------------------------------ bounds -------------------------------- *)

\* RING_SIZE is 256 in the source; the model scales it down.
RING_SIZE == 3

\* atomic_t counters are capped so that the state space is finite.
MaxTxPackets == 4

MaxOverflow == 1

MaxInterrupts == 2

\* The frames the device receives while the TX ring is under study.
MaxRxFrames == 1

\* Enough for an RX scan to go round the ring more than once: the RX loop's
\* rounds and the packets it counts are followed up to here.
MaxRxPackets == RING_SIZE + 2

\* memory-safety.c: msecs_to_jiffies(5000), scaled down.
TimeoutJiffies == 2

\* memory-safety.c: the DMA buffers device_init_dma allocates in one run.
MaxAllocs == 2

\* key-patterns.c: the counter_increment calls each thread makes.
MaxIncrements == 1

(* ------------------------- program constants -------------------------- *)

MAX_FRAME_SIZE == 1518

\* The control word is kept as the set of its bits that are one: bit 31 is
\* DESC_FLAG_OWNER_HW (0x80000000), bit 30 is DESC_FLAG_INTR_ENABLE
\* (0x40000000), and DESC_FLAG_OWNER_SW (0x00000000) has no bit.
DESC_FLAG_OWNER_HW == {31}

DESC_FLAG_OWNER_SW == {}

DESC_FLAG_INTR_ENABLE == {30}

DESC_STATUS_DONE == 1

INT_STATUS_TX == 1

INT_STATUS_RX == 2

INT_ENABLE_TX == 1

INT_ENABLE_RX == 2

MAC_CONTROL_ENABLE == 1

Slots == 0 .. (RING_SIZE - 1)

\* The threads that may call transmit_packet.
AllCallers == {"t1", "t2"}

\* The (data, len) arguments of transmit_packet the model draws from.
Payloads == {"P1"}

\* The largest length accepted and the smallest one rejected.
EdgeLens == {MAX_FRAME_SIZE, MAX_FRAME_SIZE + 1}

\* The same and a short frame.
Lens == {64} \cup EdgeLens

Frames(lens) == [data : Payloads, len : lens]

NoFrame == [data |-> "none", len |-> 0]

(* ------------------------------ helpers ------------------------------- *)

\* x & bit, for a single-bit mask
HasBit(x, bit) == (x \div bit) % 2 = 1

\* x & ~bit, for a single-bit mask
ClearBit(x, bit) == IF HasBit(x, bit) THEN x - bit ELSE x

\* x | bit, for a single-bit mask
SetBit(x, bit) == IF HasBit(x, bit) THEN x ELSE x + bit

\* cpu_to_le32 / le32_to_cpu: the value as a 32-bit word (its two 16-bit
\* halves, each kept modulo 2^16)
cpu_to_le32(x) == (x % 65536) + 65536 * ((x \div 65536) % 65536)

le32_to_cpu(x) == (x % 65536) + 65536 * ((x \div 65536) % 65536)

\* The device-visible address dma_alloc_coherent returned for data buffer i.
DataAddr(ring, i) == (IF ring = "tx" THEN 65536 ELSE 131072) + 2048 * i

\* The device-visible address of a ring's descriptor array.
RingDmaAddr(ring) == IF ring = "tx" THEN 4096 ELSE 8192

ZeroDesc == [buffer_addr |-> 0, length |-> 0, status |-> 0, control |-> {}]

ZeroBuf == [data |-> "zero", len |-> 0]

\* A ring structure as kzalloc returns it.
ZeroRing ==
    [desc |-> [i \in Slots |-> ZeroDesc],
     data_buffers |-> [i \in Slots |-> ZeroBuf],
     data_addrs |-> [i \in Slots |-> 0],
     dma_addr |-> 0,
     size |-> 0, head |-> 0, tail |-> 0, count |-> 0,
     lock |-> "free", initialized |-> FALSE,
     total_desc |-> 0, overflow_count |-> 0, underrun_count |-> 0]

(* ------------------------------ state --------------------------------- *)

VARIABLES
    tx_ring,        \* struct ring_buffer *dev->tx_ring
    rx_ring,        \* struct ring_buffer *dev->rx_ring
    regs,           \* the device register file behind mmio_base
    started,        \* dev->started
    int_enabled,    \* dev->int_enabled
    irq_registered, \* request_irq has installed device_interrupt
    stats,          \* dev->tx_packets, rx_packets, interrupts
    waits,          \* who last signalled dev->tx_wait / dev->rx_wait
    callers,        \* the threads calling transmit_packet
    pc,             \* each caller's position in transmit_packet
    idx,            \* each caller's local idx
    frame,          \* each caller's (data, len) arguments
    ret,            \* each caller's last return value
    wbuf,           \* each caller's descriptor stores not yet ordered by wmb
    irq,            \* device_interrupt's position and locals
    irqret,         \* device_interrupt's last return value
    hwq,            \* device: TX slots it was notified of and has not completed
    rx_hw,          \* device: the next RX slot it fills
    rx_frames,      \* device: the frames it has received
    limits,         \* the environment: the frames the device is going to
                    \* receive, the interrupts the handler is going to
                    \* serve, the lengths transmit_packet is called with,
                    \* the CPUs the interrupt is delivered to (a caller's
                    \* name stands for the CPU the caller runs on), and
                    \* the lifecycle calls made: one cleanup_dma_device
                    \* after a bring-up that succeeded, or any number of
                    \* them after a bring-up that succeeded or failed
    pubOrder,       \* history: published, not yet reclaimed TX slots, in order
    everPublished,  \* history: TX slots published at least once
    scan,           \* history: the ring as the running TX scan found it
    lastFreed,      \* history: slots the last scan of a full ring reclaimed
    fullReturns,    \* history: -ENOBUFS returns since the ring was built
    irqs_off,       \* the contexts running with local interrupts masked
    mem,            \* every allocation of the two rings: none, live, freed
    cleanup,        \* cleanup_dma_device's position
    init_ret,       \* init_dma_device's return value and where it failed
    found,          \* history: the descriptor as each caller's publish found it
    ctx,            \* memory-safety.c: struct device_context
    dma_mem,        \* memory-safety.c: each dma_alloc_coherent allocation
    users,          \* memory-safety.c: each client thread's position, locals
    cln,            \* memory-safety.c: device_cleanup_dma's position, locals
    clients,        \* memory-safety.c: the client threads that are running,
                    \* each with the calls it makes
    ctr,            \* key-patterns.c: struct counter
    incs,           \* key-patterns.c: each thread's position in
                    \* counter_increment, its locals and its calls so far
    expected        \* history: the counter's first value plus the deltas of
                    \* the calls that returned 0

\* dma-example.c
dmaVars == <<tx_ring, rx_ring, regs, started, int_enabled, irq_registered,
             stats, waits, callers, pc, idx, frame, ret, wbuf, irq, irqret,
             hwq, rx_hw, rx_frames, limits, pubOrder, everPublished, scan,
             lastFreed, fullReturns, irqs_off, mem, cleanup, init_ret, found>>

\* memory-safety.c
ctxVars == <<ctx, dma_mem, users, cln, clients>>

\* key-patterns.c
ctrVars == <<ctr, incs, expected>>

\* The examples other than dma-example.c
exampleVars == <<ctxVars, ctrVars>>

vars == <<dmaVars, exampleVars>>

lifeVars == <<mem, cleanup, init_ret>>

devVars == <<regs, started, int_enabled, irq_registered>>

callerVars == <<callers, pc, idx, frame, ret, wbuf>>

irqVars == <<irq, irqret>>

hwVars == <<hwq, rx_hw, rx_frames, limits>>

histVars == <<pubOrder, everPublished, scan, lastFreed, fullReturns>>

IrqIdle == [pc |-> "idle", status |-> 0, tx_complete |-> FALSE,
            rx_complete |-> FALSE, iter |-> 0, cpu |-> "none"]

\* The allocations behind one ring: the structure, the descriptor array,
\* the two pointer arrays and the data buffers.
NoMem ==
    [struct |-> "none", desc |-> "none", data_buffers |-> "none",
     data_addrs |-> "none", data |-> [i \in Slots |-> "none"]]

NoFail == [step |-> "none", at |-> "none", i |-> 0]

NoScan == [active |-> FALSE, head |-> 0, tail |-> 0, count |-> 0, k |-> 0,
           quiet |-> TRUE]

Users == {"u1", "u2"}

Allocs == 1 .. MaxAllocs

NULL == 0

\* A client thread outside every call: its locals are gone. What a call
\* returns goes to its caller and is no part of the state.
UserIdle == [pc |-> "idle", op |-> "none", buffer |-> NULL, count |-> 0,
             ret |-> "none"]

ClnIdle == [pc |-> "idle", waited |-> 0, forced |-> FALSE]

\* device_context_init: the structure zeroed, the mutex initialized, the
\* reference count set to 0. The statistics counters, which no code path
\* reads back, are left out.
ContextZeroed ==
    /\ ctx = [lock |-> "free", dma_buffer |-> NULL, buffer_size |-> 0,
              active |-> FALSE, ref_count |-> 0]
    /\ dma_mem = [a \in Allocs |-> "none"]
    /\ users = [u \in Users |-> UserIdle]
    /\ cln = ClnIdle

Incrementers == {"c1", "c2"}

IncIdle == [pc |-> "idle", delta |-> 0, new_value |-> 0, calls |-> 0]

\* A struct counter that holds value, with or without waiters on its list,
\* and no counter_increment under way.
CounterAt(value, waiters) ==
    /\ ctr = [value |-> value, lock |-> "free", waiters |-> waiters,
              woken |-> FALSE]
    /\ incs = [t \in Incrementers |-> IncIdle]
    /\ expected = value

\* The state of a zeroed struct pci_device, before init_dma_device.
Uninitialized ==
    /\ tx_ring = ZeroRing
    /\ rx_ring = ZeroRing
    /\ regs = [TX_RING_PTR |-> 0, RX_RING_PTR |-> 0, INT_ENABLE |-> 0,
               INT_STATUS |-> 0, MAC_CONTROL |-> 0]
    /\ started = FALSE
    /\ int_enabled = FALSE
    /\ irq_registered = FALSE
    /\ stats = [tx_packets |-> 0, rx_packets |-> 0, interrupts |-> 0]
    /\ waits = [tx_wait |-> "none", rx_wait |-> "none"]
    /\ pc = [p \in AllCallers |-> "idle"]
    /\ idx = [p \in AllCallers |-> 0]
    /\ frame = [p \in AllCallers |-> NoFrame]
    /\ ret = [p \in AllCallers |-> "none"]
    /\ wbuf = [p \in AllCallers |-> {}]
    /\ irq = IrqIdle
    /\ irqret = "none"
    /\ hwq = {}
    /\ rx_hw = 0
    /\ rx_frames = 0
    /\ pubOrder = <<>>
    /\ everPublished = {}
    /\ scan = NoScan
    /\ lastFreed = {}
    /\ fullReturns = 0
    /\ irqs_off = {}
    /\ mem = [tx |-> NoMem, rx |-> NoMem]
    /\ cleanup = "idle"
    /\ init_ret = [code |-> "none", fail |-> NoFail]
    /\ found = [p \in AllCallers |-> ZeroDesc]
    /\ ContextZeroed

\* One thread transmits; the device receives at most MaxRxFrames frames.
Init ==
    /\ Uninitialized
    /\ CounterAt(0, FALSE)
    /\ clients = <<>>
    /\ callers = {"t1"}
    /\ limits = [rx_frames |-> MaxRxFrames, interrupts |-> MaxInterrupts,
                 lens |-> EdgeLens, cpus |-> {"other"}, lifecycle |-> "once"]

\* One thread transmits on a weakly ordered machine; nothing is received
\* and the handler serves one interrupt.
InitWmb ==
    /\ Uninitialized
    /\ CounterAt(0, FALSE)
    /\ clients = <<>>
    /\ callers = {"t1"}
    /\ limits = [rx_frames |-> 0, interrupts |-> 1, lens |-> Lens,
                 cpus |-> {"other"}, lifecycle |-> "once"]

\* Every transmit is rejected; the device receives until its ring is used up.
InitRx ==
    /\ Uninitialized
    /\ CounterAt(0, FALSE)
    /\ clients = <<>>
    /\ callers = {"t1"}
    /\ limits = [rx_frames |-> RING_SIZE, interrupts |-> RING_SIZE + 2,
                 lens |-> {MAX_FRAME_SIZE + 1}, cpus |-> {"other"},
                 lifecycle |-> "once"]

\* One thread transmits frames of the largest length; nothing is received;
\* cleanup_dma_device is called at any moment after the bring-up.
InitLife ==
    /\ Uninitialized
    /\ CounterAt(0, FALSE)
    /\ clients = <<>>
    /\ callers = {"t1"}
    /\ limits = [rx_frames |-> 0, interrupts |-> MaxInterrupts,
                 lens |-> {MAX_FRAME_SIZE}, cpus |-> {"other"},
                 lifecycle |-> "once"]

\* One thread transmits and the device receives until its RX ring is used
\* up; the interrupt is delivered to the transmitting thread's CPU or to
\* another one, as often as the device raises it.
InitFair ==
    /\ Uninitialized
    /\ CounterAt(0, FALSE)
    /\ clients = <<>>
    /\ callers = {"t1"}
    /\ limits = [rx_frames |-> RING_SIZE,
                 interrupts |-> MaxTxPackets + RING_SIZE + 1,
                 lens |-> {MAX_FRAME_SIZE}, cpus |-> {"t1", "other"},
                 lifecycle |-> "once"]

(* ------------------------- device bring-up ---------------------------- *)

\* alloc_ring_buffer, every allocation succeeding: the ring it builds.
alloc_ring_buffer(ring) ==
    [ZeroRing EXCEPT
       !.dma_addr = RingDmaAddr(ring),
       !.data_addrs = [i \in Slots |-> DataAddr(ring, i)],
       !.desc = [i \in Slots |->
                   [buffer_addr |-> cpu_to_le32(DataAddr(ring, i)),
                    length |-> cpu_to_le32(MAX_FRAME_SIZE),
                    status |-> 0,
                    control |-> DESC_FLAG_OWNER_HW]],
       !.size = RING_SIZE,
       !.head = 0,
       !.tail = 0,
       !.count = 0,
       !.initialized = TRUE,
       !.total_desc = RING_SIZE,
       !.overflow_count = 0,
       !.underrun_count = 0]

\* The allocations of a ring that alloc_ring_buffer built in full, in the
\* structure its caller allocated.
BuiltMem ==
    [struct |-> "live", desc |-> "live", data_buffers |-> "live",
     data_addrs |-> "live", data |-> [i \in Slots |-> "live"]]

\* init_dma_device on its success path: setup_dma_rings builds both rings,
\* programs the ring base registers and the interrupt enable register;
\* request_irq installs the handler; the device is started.
init_dma_device ==
    /\ init_ret.code = "none"
    /\ ~started
    /\ ~tx_ring.initialized
    /\ mem' = [tx |-> BuiltMem, rx |-> BuiltMem]
    /\ init_ret' = [code |-> "OK", fail |-> NoFail]
    /\ UNCHANGED cleanup
    /\ tx_ring' = alloc_ring_buffer("tx")
    /\ rx_ring' = alloc_ring_buffer("rx")
    /\ regs' = [regs EXCEPT !.TX_RING_PTR = RingDmaAddr("tx"),
                            !.RX_RING_PTR = RingDmaAddr("rx"),
                            !.INT_ENABLE = INT_ENABLE_TX + INT_ENABLE_RX,
                            !.MAC_CONTROL = MAC_CONTROL_ENABLE]
    /\ int_enabled' = TRUE
    /\ irq_registered' = TRUE
    /\ started' = TRUE
    /\ fullReturns' = 0
    /\ UNCHANGED <<stats, waits, callerVars, irqVars, hwVars, pubOrder,
                   everPublished, scan, lastFreed>>
    /\ UNCHANGED <<irqs_off>>
    /\ UNCHANGED found
    /\ UNCHANGED exampleVars

(* --------------------------- transmit path ---------------------------- *)

\* Caller p is running: the interrupt handler has not interrupted its CPU.
Running(p) == irq.cpu # p

\* A slip: a lock that excludes nobody
SpinCanTake_NoExclusion(ring) == TRUE

\* spin_lock_irqsave gets past its spin only when nobody holds the lock.
SpinCanTake(ring) == ring.lock = "free"

\* A slip: the started test left out
InvalidArgs_NoStartedTest(f) == f.len > MAX_FRAME_SIZE

\* transmit_packet's argument check.
InvalidArgs(f) == ~started \/ f.len > MAX_FRAME_SIZE

\* A slip: > for >=
RingFull_OffByOne(ring) == ring.count > ring.size

\* transmit_packet's test for a saturated ring.
RingFull(ring) == ring.count >= ring.size

\* A slip: the Full return counted twice
CountOverflow_Twice(ring) == [ring EXCEPT !.overflow_count = @ + 2]

\* A slip: the Full return not counted
CountOverflow_Lost(ring) == ring

\* atomic_inc(&ring->overflow_count)
CountOverflow(ring) == [ring EXCEPT !.overflow_count = @ + 1]

\* A slip: no wrap-around
NextIndex_NoWrap(i, size) == i + 1

\* The index after i in a ring of the given size.
NextIndex(i, size) == (i + 1) % size

\* memcpy(buffer, data, len): what the destination buffer then holds.
Memcpy(f) == [data |-> f.data, len |-> f.len]

\* transmit_packet from its entry to the end of the claim: the argument
\* check, then under the ring lock either the Full return or idx = head.
transmit_packet(p, f) ==
    /\ Running(p)
    /\ pc[p] = "idle"
    /\ IF InvalidArgs(f)
       THEN /\ ret' = [ret EXCEPT ![p] = "EINVAL"]
            /\ UNCHANGED <<tx_ring, pc, idx, frame>>
       ELSE /\ SpinCanTake(tx_ring)
            /\ stats.tx_packets < MaxTxPackets
            /\ tx_ring.overflow_count < MaxOverflow
            /\ IF RingFull(tx_ring)
               THEN /\ tx_ring' = CountOverflow(tx_ring)
                    /\ ret' = [ret EXCEPT ![p] = "ENOBUFS"]
                    /\ UNCHANGED <<pc, idx, frame>>
               ELSE /\ idx' = [idx EXCEPT ![p] = tx_ring.head]
                    /\ frame' = [frame EXCEPT ![p] = f]
                    /\ pc' = [pc EXCEPT ![p] = "copy"]
                    /\ ret' = [ret EXCEPT ![p] = "none"]
                    /\ UNCHANGED tx_ring
    /\ fullReturns' = IF ret'[p] = "ENOBUFS" THEN fullReturns + 1
                      ELSE fullReturns
    /\ UNCHANGED <<rx_ring, devVars, stats, waits, callers, wbuf, irqVars,
                   hwVars, pubOrder, everPublished, scan, lastFreed>>
    /\ UNCHANGED <<irqs_off, lifeVars>>
    /\ UNCHANGED found
    /\ UNCHANGED exampleVars

\* transmit_packet: the payload copy, outside the lock.
transmit_copy(p) ==
    /\ Running(p)
    /\ pc[p] = "copy"
    /\ tx_ring' = [tx_ring EXCEPT
                     !.data_buffers[idx[p]] = Memcpy(frame[p])]
    /\ pc' = [pc EXCEPT ![p] = "update"]
    /\ UNCHANGED <<rx_ring, devVars, stats, waits, callers, idx, frame, ret,
                   wbuf, irqVars, hwVars, histVars>>
    /\ UNCHANGED <<irqs_off, lifeVars>>
    /\ UNCHANGED found
    /\ UNCHANGED exampleVars

\* update_tx_descriptor: spin_lock_irqsave and the bounds check; an index
\* out of bounds is counted and the lock released.
update_lock(p) ==
    /\ Running(p)
    /\ pc[p] = "update"
    /\ SpinCanTake(tx_ring)
    /\ IF idx[p] < tx_ring.size
       THEN /\ tx_ring' = [tx_ring EXCEPT !.lock = p]
            /\ irqs_off' = irqs_off \cup {p}
            /\ pc' = [pc EXCEPT ![p] = "w_addr"]
            /\ found' = [found EXCEPT ![p] = tx_ring.desc[idx[p]]]
       ELSE /\ tx_ring' = CountOverflow(tx_ring)
            /\ pc' = [pc EXCEPT ![p] = "tx_inc"]
            /\ UNCHANGED <<irqs_off, found>>
    /\ UNCHANGED exampleVars
    /\ UNCHANGED <<rx_ring, devVars, stats, waits, callers, idx, frame, ret,
                   wbuf, irqVars, hwVars, histVars>>
    /\ UNCHANGED <<lifeVars>>

\* One store to a field of descriptor idx: it enters the write buffer.
Store(p, at, next, field, value) ==
    /\ Running(p)
    /\ pc[p] = at
    /\ wbuf' = [wbuf EXCEPT ![p] = @ \cup {<<field, value>>}]
    /\ pc' = [pc EXCEPT ![p] = next]
    /\ UNCHANGED <<tx_ring, rx_ring, devVars, stats, waits, callers, idx,
                   frame, ret, irqVars, hwVars, histVars>>
    /\ UNCHANGED <<irqs_off, lifeVars>>
    /\ UNCHANGED found
    /\ UNCHANGED exampleVars

\* A slip: the status word is left as it was
StatusStored_Kept(d) == d.status

\* ring->desc[idx].status = 0
StatusStored(d) == 0

\* The control word update_tx_descriptor writes.
PublishControl == DESC_FLAG_OWNER_HW \cup DESC_FLAG_INTR_ENABLE

update_w_addr(p) ==
    Store(p, "w_addr", "w_len", "buffer_addr",
          cpu_to_le32(tx_ring.data_addrs[idx[p]]))

update_w_len(p) ==
    Store(p, "w_len", "w_status", "length", cpu_to_le32(frame[p].len))

update_w_status(p) ==
    Store(p, "w_status", "w_control", "status",
          StatusStored(tx_ring.desc[idx[p]]))

update_w_control(p) ==
    Store(p, "w_control", "wmb", "control", PublishControl)

\* A buffered store reaches the memory the device reads.
Commit(d, st) == [d EXCEPT ![st[1]] = st[2]]

\* Stores not yet ordered by a barrier become visible in any order.
drain(p) ==
    /\ Running(p)
    /\ wbuf[p] # {}
    /\ \E st \in wbuf[p] :
          /\ tx_ring' = [tx_ring EXCEPT !.desc[idx[p]] = Commit(@, st)]
          /\ wbuf' = [wbuf EXCEPT ![p] = @ \ {st}]
    /\ UNCHANGED <<rx_ring, devVars, stats, waits, callers, pc, idx, frame,
                   ret, irqVars, hwVars, histVars>>
    /\ UNCHANGED <<irqs_off, lifeVars>>
    /\ UNCHANGED found
    /\ UNCHANGED exampleVars

\* A slip: a barrier that makes no store visible
CommitAll_Nothing(d, sts) == d

\* The descriptor with every store of the set applied (one store per field).
RECURSIVE CommitAll(_, _)
CommitAll(d, sts) ==
    IF sts = {} THEN d
    ELSE LET st == CHOOSE x \in sts : TRUE
         IN  CommitAll(Commit(d, st), sts \ {st})

\* MEMORY_BARRIER(): every earlier store is visible before any later one.
update_wmb(p) ==
    /\ Running(p)
    /\ pc[p] = "wmb"
    /\ tx_ring' = [tx_ring EXCEPT !.desc[idx[p]] = CommitAll(@, wbuf[p])]
    /\ wbuf' = [wbuf EXCEPT ![p] = {}]
    /\ pc' = [pc EXCEPT ![p] = "doorbell"]
    /\ UNCHANGED <<rx_ring, devVars, stats, waits, callers, idx, frame, ret,
                   irqVars, hwVars, histVars>>
    /\ UNCHANGED <<irqs_off, lifeVars>>
    /\ UNCHANGED found
    /\ UNCHANGED exampleVars

\* writel(idx, TX_RING_PTR): the device is told of the slot.
update_doorbell(p) ==
    /\ Running(p)
    /\ pc[p] = "doorbell"
    /\ regs' = [regs EXCEPT !.TX_RING_PTR = idx[p]]
    /\ hwq' = hwq \cup {idx[p]}
    /\ pc' = [pc EXCEPT ![p] = "advance"]
    /\ UNCHANGED <<tx_ring, rx_ring, started, int_enabled, irq_registered,
                   stats, waits, callers, idx, frame, ret, wbuf, irqVars,
                   rx_hw, rx_frames, limits, histVars>>
    /\ UNCHANGED <<irqs_off, lifeVars>>
    /\ UNCHANGED found
    /\ UNCHANGED exampleVars

\* head and count move, tx_wait is signalled, the lock is released and the
\* interrupt state restored.
update_advance(p) ==
    /\ Running(p)
    /\ pc[p] = "advance"
    /\ irqs_off' = irqs_off \ {p}
    /\ tx_ring' = [tx_ring EXCEPT
                     !.head = NextIndex(idx[p], tx_ring.size),
                     !.count = @ + 1,
                     !.lock = "free"]
    /\ waits' = [waits EXCEPT !.tx_wait = "publish"]
    /\ pc' = [pc EXCEPT ![p] = "tx_inc"]
    /\ pubOrder' = Append(pubOrder, idx[p])
    /\ everPublished' = everPublished \cup {idx[p]}
    /\ lastFreed' = {}
    /\ UNCHANGED <<rx_ring, devVars, stats, callers, idx, frame, ret, wbuf,
                   irqVars, hwVars, scan, fullReturns>>
    /\ UNCHANGED <<lifeVars>>
    /\ found' = [found EXCEPT ![p] = ZeroDesc]
    /\ UNCHANGED exampleVars

\* atomic_inc(&dev->tx_packets); return 0.
transmit_return(p) ==
    /\ Running(p)
    /\ pc[p] = "tx_inc"
    /\ stats' = [stats EXCEPT !.tx_packets = @ + 1]
    /\ ret' = [ret EXCEPT ![p] = "OK"]
    /\ frame' = [frame EXCEPT ![p] = NoFrame]
    /\ pc' = [pc EXCEPT ![p] = "idle"]
    /\ UNCHANGED <<tx_ring, rx_ring, devVars, waits, callers, idx, wbuf,
                   irqVars, hwVars, histVars>>
    /\ UNCHANGED <<irqs_off, lifeVars>>
    /\ UNCHANGED found
    /\ UNCHANGED exampleVars

(* ------------------------- interrupt handler -------------------------- *)

\* A slip: the status word not tested
DescDone_Untested(d) == TRUE

\* The completion test of both scans: status & DESC_STATUS_DONE.
DescDone(d) == HasBit(le32_to_cpu(d.status), DESC_STATUS_DONE)

\* A slip: the reclaim moves head along with tail
Reclaim_HeadMoved(ring) ==
    [ring EXCEPT !.tail = (ring.tail + 1) % ring.size, !.count = @ - 1,
                 !.head = (ring.head + 1) % ring.size]

\* A slip: count not decremented
Reclaim_CountKept(ring) ==
    [ring EXCEPT !.tail = (ring.tail + 1) % ring.size]

\* The TX loop's reclaim of the slot at tail.
Reclaim(ring) ==
    [ring EXCEPT !.tail = NextIndex(ring.tail, ring.size), !.count = @ - 1]

\* A slip: the acknowledge clears the whole register
AckStatus_ClearsAll(reg, v) == 0

\* INT_STATUS after the write of v: writing a one clears that bit.
AckStatus(reg, v) ==
    LET tx == IF HasBit(v, INT_STATUS_TX) THEN ClearBit(reg, INT_STATUS_TX)
              ELSE reg
    IN  IF HasBit(v, INT_STATUS_RX) THEN ClearBit(tx, INT_STATUS_RX) ELSE tx

\* Where the handler goes once the TX part is over.
AfterTx(status) == IF HasBit(status, INT_STATUS_RX) THEN "rx" ELSE "wake"

\* History: the number of outstanding slots, from slot t on, whose status
\* word has the DONE bit.
RECURSIVE DonePrefix(_, _, _)
DonePrefix(ring, t, n) ==
    IF n = 0 \/ ring.desc[t].status % 2 = 0 THEN 0
    ELSE 1 + DonePrefix(ring, (t + 1) % ring.size, n - 1)

\* A slip: the test for a status of zero left out
NotOurs_Never(status) == FALSE

\* if (!status): the interrupt is not this device's.
NotOurs(status) == status = 0

\* An interrupt is delivered to a CPU only while the code running there
\* has local interrupts enabled.
Deliverable(c) == c \notin irqs_off

\* device_interrupt: readl(INT_STATUS); on zero return IRQ_NONE.
irq_entry ==
    /\ irq_registered
    /\ irq.pc = "idle"
    /\ \E c \in limits.cpus :
          /\ Deliverable(c)
          /\ LET status == regs.INT_STATUS
             IN  IF NotOurs(status)
                 THEN /\ irqret' = "IRQ_NONE"
                      /\ UNCHANGED irq
                 ELSE /\ stats.interrupts < limits.interrupts
                      /\ irq' = [IrqIdle EXCEPT !.status = status,
                                                !.pc = "ack", !.cpu = c]
                      /\ irqret' = "running"
    /\ UNCHANGED <<tx_ring, rx_ring, devVars, stats, waits, callerVars,
                   hwVars, histVars>>
    /\ UNCHANGED <<irqs_off, lifeVars>>
    /\ UNCHANGED found
    /\ UNCHANGED exampleVars

\* writel(status, INT_STATUS); atomic_inc(&dev->interrupts).
irq_ack ==
    /\ irq.pc = "ack"
    /\ regs' = [regs EXCEPT !.INT_STATUS = AckStatus(@, irq.status)]
    /\ stats' = [stats EXCEPT !.interrupts = @ + 1]
    /\ irq' = [irq EXCEPT !.pc = IF HasBit(irq.status, INT_STATUS_TX)
                                 THEN "tx" ELSE AfterTx(irq.status)]
    /\ UNCHANGED <<tx_ring, rx_ring, started, int_enabled, irq_registered,
                   waits, callerVars, irqret, hwVars, histVars>>
    /\ UNCHANGED <<irqs_off, lifeVars>>
    /\ UNCHANGED found
    /\ UNCHANGED exampleVars

\* spin_lock_irqsave(&dev->tx_ring->lock)
irq_tx_lock ==
    /\ irq.pc = "tx"
    /\ SpinCanTake(tx_ring)
    /\ irqs_off' = irqs_off \cup {"irq"}
    /\ tx_ring' = [tx_ring EXCEPT !.lock = "irq"]
    /\ irq' = [irq EXCEPT !.pc = "tx_loop", !.iter = 0]
    /\ scan' = [active |-> TRUE, head |-> tx_ring.head,
                tail |-> tx_ring.tail, count |-> tx_ring.count,
                k |-> DonePrefix(tx_ring, tx_ring.tail, tx_ring.count),
                quiet |-> TRUE]
    /\ lastFreed' = {}
    /\ UNCHANGED <<rx_ring, devVars, stats, waits, callerVars, irqret,
                   hwVars, pubOrder, everPublished, fullReturns>>
    /\ UNCHANGED <<lifeVars>>
    /\ UNCHANGED found
    /\ UNCHANGED exampleVars

\* One evaluation of the TX loop: the slot at tail is reclaimed when it
\* shows DONE, and the loop is left otherwise.
irq_tx_step ==
    /\ irq.pc = "tx_loop"
    /\ IF tx_ring.count > 0 /\ DescDone(tx_ring.desc[tx_ring.tail])
       THEN /\ tx_ring' = Reclaim(tx_ring)
            /\ irq' = [irq EXCEPT !.tx_complete = TRUE, !.iter = @ + 1]
            /\ pubOrder' = SelectSeq(pubOrder, LAMBDA s : s # tx_ring.tail)
            /\ lastFreed' = IF scan.count = tx_ring.size
                            THEN lastFreed \cup {tx_ring.tail}
                            ELSE lastFreed
       ELSE /\ irq' = [irq EXCEPT !.pc = "tx_unlock"]
            /\ UNCHANGED <<tx_ring, pubOrder, lastFreed>>
    /\ UNCHANGED <<rx_ring, devVars, stats, waits, callerVars, irqret,
                   hwVars, everPublished, scan, fullReturns>>
    /\ UNCHANGED <<irqs_off, lifeVars>>
    /\ UNCHANGED found
    /\ UNCHANGED exampleVars

\* spin_unlock_irqrestore(&dev->tx_ring->lock)
irq_tx_unlock ==
    /\ irq.pc = "tx_unlock"
    /\ irqs_off' = irqs_off \ {"irq"}
    /\ tx_ring' = [tx_ring EXCEPT !.lock = "free"]
    /\ irq' = [irq EXCEPT !.pc = AfterTx(irq.status), !.iter = 0]
    /\ scan' = NoScan
    /\ UNCHANGED <<rx_ring, devVars, stats, waits, callerVars, irqret,
                   hwVars, pubOrder, everPublished, lastFreed, fullReturns>>
    /\ UNCHANGED <<lifeVars>>
    /\ UNCHANGED found
    /\ UNCHANGED exampleVars

\* spin_lock_irqsave(&dev->rx_ring->lock)
irq_rx_lock ==
    /\ irq.pc = "rx"
    /\ SpinCanTake(rx_ring)
    /\ irqs_off' = irqs_off \cup {"irq"}
    /\ rx_ring' = [rx_ring EXCEPT !.lock = "irq"]
    /\ irq' = [irq EXCEPT !.pc = "rx_loop", !.iter = 0]
    /\ UNCHANGED <<tx_ring, devVars, stats, waits, callerVars, irqret,
                   hwVars, histVars>>
    /\ UNCHANGED <<lifeVars>>
    /\ UNCHANGED found
    /\ UNCHANGED exampleVars

\* A counter one on; at the cap it is not followed any further.
Counted(n, cap) == IF n < cap THEN n + 1 ELSE cap

\* One evaluation of the RX loop: head moves past a descriptor that shows
\* DONE and the packet is counted; the loop is left otherwise.
irq_rx_step ==
    /\ irq.pc = "rx_loop"
    /\ IF DescDone(rx_ring.desc[rx_ring.head])
       THEN /\ rx_ring' = [rx_ring EXCEPT
                             !.head = NextIndex(rx_ring.head, rx_ring.size)]
            /\ irq' = [irq EXCEPT !.rx_complete = TRUE,
                                  !.iter = Counted(@, MaxRxPackets)]
            /\ stats' = [stats EXCEPT
                           !.rx_packets = Counted(@, MaxRxPackets)]
            /\ UNCHANGED irqs_off
       ELSE /\ rx_ring' = [rx_ring EXCEPT !.lock = "free"]
            /\ irq' = [irq EXCEPT !.pc = "wake", !.iter = 0]
            /\ irqs_off' = irqs_off \ {"irq"}
            /\ UNCHANGED stats
    /\ UNCHANGED <<tx_ring, devVars, waits, callerVars, irqret, hwVars,
                   histVars>>
    /\ UNCHANGED <<lifeVars>>
    /\ UNCHANGED found
    /\ UNCHANGED exampleVars

\* A slip: the wake-up left out
WakeUp_Never(complete, queue) == queue

\* if (complete) wake_up_interruptible(&queue)
WakeUp(complete, queue) == IF complete THEN "irq" ELSE queue

\* The wake-ups and return IRQ_HANDLED.
irq_return ==
    /\ irq.pc = "wake"
    /\ waits' = [tx_wait |-> WakeUp(irq.tx_complete, waits.tx_wait),
                 rx_wait |-> WakeUp(irq.rx_complete, waits.rx_wait)]
    /\ irq' = IrqIdle
    /\ irqret' = "IRQ_HANDLED"
    /\ UNCHANGED <<tx_ring, rx_ring, devVars, stats, callerVars, hwVars,
                   histVars>>
    /\ UNCHANGED <<irqs_off, lifeVars>>
    /\ UNCHANGED found
    /\ UNCHANGED exampleVars

(* ------------------------------ device -------------------------------- *)

\* INT_STATUS with an event's bit raised, when INT_ENABLE lets it through.
Raise(r, enable, bit) ==
    IF HasBit(r.INT_ENABLE, enable)
    THEN [r EXCEPT !.INT_STATUS = SetBit(@, bit)]
    ELSE r

\* The device completes a TX descriptor it was notified of: it sets DONE in
\* the status word and raises the TX interrupt.
device_tx_done(i) ==
    /\ HasBit(regs.MAC_CONTROL, MAC_CONTROL_ENABLE)
    /\ i \in hwq
    /\ tx_ring' = [tx_ring EXCEPT
                     !.desc[i].status = SetBit(@, DESC_STATUS_DONE)]
    /\ hwq' = hwq \ {i}
    /\ regs' = IF DESC_FLAG_INTR_ENABLE \subseteq tx_ring.desc[i].control
               THEN Raise(regs, INT_ENABLE_TX, INT_STATUS_TX)
               ELSE regs
    /\ scan' = IF scan.active THEN [scan EXCEPT !.quiet = FALSE] ELSE scan
    /\ UNCHANGED <<rx_ring, started, int_enabled, irq_registered, stats,
                   waits, callerVars, irqVars, rx_hw, rx_frames, limits,
                   pubOrder, everPublished, lastFreed, fullReturns>>
    /\ UNCHANGED <<irqs_off, lifeVars>>
    /\ UNCHANGED found
    /\ UNCHANGED exampleVars

\* The device receives a frame into its next RX descriptor, which it owns
\* and has not filled yet: it sets DONE and raises the RX interrupt.
device_rx_done ==
    /\ HasBit(regs.MAC_CONTROL, MAC_CONTROL_ENABLE)
    /\ rx_frames < limits.rx_frames
    /\ DESC_FLAG_OWNER_HW \subseteq rx_ring.desc[rx_hw].control
    /\ ~DescDone(rx_ring.desc[rx_hw])
    /\ rx_ring' = [rx_ring EXCEPT
                     !.desc[rx_hw].status = SetBit(@, DESC_STATUS_DONE)]
    /\ rx_hw' = NextIndex(rx_hw, RING_SIZE)
    /\ rx_frames' = rx_frames + 1
    /\ regs' = Raise(regs, INT_ENABLE_RX, INT_STATUS_RX)
    /\ UNCHANGED <<tx_ring, started, int_enabled, irq_registered, stats,
                   waits, callerVars, irqVars, hwq, limits, histVars>>
    /\ UNCHANGED <<irqs_off, lifeVars>>
    /\ UNCHANGED found
    /\ UNCHANGED exampleVars

(* ----------------------- bring-up that fails -------------------------- *)

\* dma_free_coherent / kfree of one allocation: freeing what is not live
\* (never allocated, or freed before) is an error.
MemFree(st) == IF st = "live" THEN "freed" ELSE "bad"

\* The allocations of alloc_ring_buffer that can fail: the descriptor array,
\* the two pointer arrays, data buffer i.
AllocFails ==
    {[at |-> a, i |-> 0] : a \in {"desc", "data_buffers", "data_addrs"}}
        \cup {[at |-> "data", i |-> i] : i \in Slots}

\* The ring's allocations when the allocation at f is the first to fail.
AllocatedBefore(m, f) ==
    [m EXCEPT
       !.desc = IF f.at # "desc" THEN "live" ELSE @,
       !.data_buffers = IF f.at \in {"data_addrs", "data"} THEN "live" ELSE @,
       !.data_addrs = IF f.at = "data" THEN "live" ELSE @,
       !.data = [j \in Slots |->
                   IF f.at = "data" /\ j < f.i THEN "live" ELSE m.data[j]]]

\* A slip: the buffer allocated last is not freed
RollbackData_SkipsLast(m, i) ==
    [m EXCEPT
       !.data = [j \in Slots |->
                   IF j < i - 1 THEN MemFree(m.data[j]) ELSE m.data[j]],
       !.data_addrs = MemFree(@)]

\* err_free_data: while (i-- > 0) the data buffers go, then data_addrs.
RollbackData(m, i) ==
    [m EXCEPT
       !.data = [j \in Slots |->
                   IF j < i THEN MemFree(m.data[j]) ELSE m.data[j]],
       !.data_addrs = MemFree(@)]

\* err_free_buffers
RollbackBuffers(m) == [m EXCEPT !.data_buffers = MemFree(@)]

\* err_free_desc
RollbackDesc(m) == [m EXCEPT !.desc = MemFree(@)]

\* alloc_ring_buffer returning -ENOMEM: the allocations made up to the
\* failure at f, then the labels from the one jumped to down to the return.
alloc_ring_buffer_fails(m, f) ==
    LET a == AllocatedBefore(m, f)
    IN  CASE f.at = "desc" -> a
          [] f.at = "data_buffers" -> RollbackDesc(a)
          [] f.at = "data_addrs" -> RollbackDesc(RollbackBuffers(a))
          [] f.at = "data" ->
               RollbackDesc(RollbackBuffers(RollbackData(a, f.i)))

\* The ring structure alloc_ring_buffer leaves when it fails at f: the
\* fields stored before the failure, initialized still false.
PartialRing(ring, f) ==
    [ZeroRing EXCEPT
       !.dma_addr = IF f.at # "desc" THEN RingDmaAddr(ring) ELSE 0,
       !.data_addrs = [j \in Slots |->
                         IF f.at = "data" /\ j < f.i
                         THEN DataAddr(ring, j) ELSE 0],
       !.desc = [j \in Slots |->
                   IF f.at = "data" /\ j < f.i
                   THEN [buffer_addr |-> cpu_to_le32(DataAddr(ring, j)),
                         length |-> cpu_to_le32(MAX_FRAME_SIZE),
                         status |-> 0,
                         control |-> DESC_FLAG_OWNER_HW]
                   ELSE ZeroDesc]]

\* free_ring_buffer: nothing for a ring not initialized; otherwise every
\* data buffer with a pointer, the pointer arrays and the descriptor array
\* are freed.
free_ring_memory(ring, m) ==
    IF ~ring.initialized THEN m
    ELSE [m EXCEPT
            !.data = [j \in Slots |->
                        IF m.data[j] # "none" THEN MemFree(m.data[j])
                        ELSE m.data[j]],
            !.data_addrs = MemFree(@),
            !.data_buffers = MemFree(@),
            !.desc = MemFree(@)]

\* free_ring_buffer: the ring structure afterwards.
free_ring_buffer(ring) ==
    IF ~ring.initialized THEN ring ELSE [ring EXCEPT !.initialized = FALSE]

\* kfree of a ring structure
kfree_ring(m) == [m EXCEPT !.struct = MemFree(@)]

\* The steps of init_dma_device that can fail: the two kzalloc and the two
\* alloc_ring_buffer of setup_dma_rings, and request_irq.
InitFails ==
    {[step |-> st, at |-> "none", i |-> 0] :
        st \in {"tx_struct", "rx_struct", "request_irq"}}
        \cup {[step |-> st, at |-> f.at, i |-> f.i] :
                st \in {"tx_alloc", "rx_alloc"}, f \in AllocFails}

\* The TX ring's allocations after a bring-up that fails at f.
TxMemAfterFail(f) ==
    LET fresh == [NoMem EXCEPT !.struct = "live"]
    IN  CASE f.step = "tx_struct" -> NoMem
          [] f.step = "tx_alloc" ->
               kfree_ring(alloc_ring_buffer_fails(fresh, f))
          [] OTHER ->
               kfree_ring(free_ring_memory(alloc_ring_buffer("tx"), BuiltMem))

\* The RX ring's allocations after a bring-up that fails at f.
RxMemAfterFail(f) ==
    LET fresh == [NoMem EXCEPT !.struct = "live"]
    IN  CASE f.step \in {"tx_struct", "tx_alloc", "rx_struct"} -> NoMem
          [] f.step = "rx_alloc" ->
               kfree_ring(alloc_ring_buffer_fails(fresh, f))
          [] OTHER ->
               kfree_ring(free_ring_memory(alloc_ring_buffer("rx"), BuiltMem))

\* init_dma_device returning an error: setup_dma_rings fails at a kzalloc
\* or in alloc_ring_buffer and unwinds through its labels, or request_irq
\* fails after setup_dma_rings has programmed the device and the rings are
\* freed at err_cleanup_rings.
init_dma_device_fails(f) ==
    /\ init_ret.code = "none"
    /\ ~started
    /\ ~tx_ring.initialized
    /\ mem' = [tx |-> TxMemAfterFail(f), rx |-> RxMemAfterFail(f)]
    /\ tx_ring' = CASE f.step = "tx_struct" -> tx_ring
                    [] f.step = "tx_alloc" -> PartialRing("tx", f)
                    [] OTHER -> free_ring_buffer(alloc_ring_buffer("tx"))
    /\ rx_ring' = CASE f.step \in {"tx_struct", "tx_alloc", "rx_struct"} ->
                         rx_ring
                    [] f.step = "rx_alloc" -> PartialRing("rx", f)
                    [] OTHER -> free_ring_buffer(alloc_ring_buffer("rx"))
    /\ IF f.step = "request_irq"
       THEN /\ regs' = [regs EXCEPT
                          !.TX_RING_PTR = RingDmaAddr("tx"),
                          !.RX_RING_PTR = RingDmaAddr("rx"),
                          !.INT_ENABLE = INT_ENABLE_TX + INT_ENABLE_RX]
            /\ int_enabled' = TRUE
            /\ init_ret' = [code |-> "EBUSY", fail |-> f]
       ELSE /\ init_ret' = [code |-> "ENOMEM", fail |-> f]
            /\ UNCHANGED <<regs, int_enabled>>
    /\ UNCHANGED <<started, irq_registered, stats, waits, callerVars,
                   irqVars, hwVars, histVars, irqs_off, cleanup>>
    /\ UNCHANGED found
    /\ UNCHANGED exampleVars

(* ------------------------------ teardown ------------------------------ *)

\* A slip: free_irq that does not wait for the running handler
HandlerQuiesced_NoWait == TRUE

\* free_irq returns only when no invocation of the handler is running.
HandlerQuiesced == irq.pc = "idle"

\* cleanup_dma_device may be called: after init_dma_device has returned,
\* and not while an earlier call of it is under way.
CleanupCallable ==
    IF limits.lifecycle = "once"
    THEN cleanup = "idle" /\ init_ret.code = "OK"
    ELSE cleanup \in {"idle", "done"} /\ init_ret.code # "none"

\* What if (!ring->initialized) reads: the field of a live structure; of
\* one that was freed, whatever the memory holds by now.
InitializedRead(ring, m) ==
    IF m.struct = "live" THEN {ring.initialized} ELSE BOOLEAN

\* if (ring) { free_ring_buffer(pdev, ring); kfree(ring); }: nothing for
\* a pointer that is NULL, which it is only as long as kzalloc has not
\* set it; the allocations afterwards.
cleanup_ring_memory(ring, m, seen) ==
    IF m.struct = "none" THEN m
    ELSE kfree_ring(free_ring_memory([ring EXCEPT !.initialized = seen], m))

\* if (ring) { free_ring_buffer(pdev, ring); kfree(ring); }: the ring
\* structure afterwards.
cleanup_ring(ring, m, seen) ==
    IF m.struct = "none" THEN ring
    ELSE free_ring_buffer([ring EXCEPT !.initialized = seen])

\* cleanup_dma_device: the device engine is disabled.
cleanup_dma_device ==
    /\ CleanupCallable
    /\ IF started
       THEN /\ started' = FALSE
            /\ regs' = [regs EXCEPT !.MAC_CONTROL = 0]
       ELSE UNCHANGED <<started, regs>>
    /\ cleanup' = "int_off"
    /\ UNCHANGED <<tx_ring, rx_ring, int_enabled, irq_registered, stats,
                   waits, callerVars, irqVars, hwVars, histVars, irqs_off,
                   mem, init_ret>>
    /\ UNCHANGED found
    /\ UNCHANGED exampleVars

\* writel(0, INT_ENABLE); dev->int_enabled = false.
cleanup_int_off ==
    /\ cleanup = "int_off"
    /\ regs' = [regs EXCEPT !.INT_ENABLE = 0]
    /\ int_enabled' = FALSE
    /\ cleanup' = "free_irq"
    /\ UNCHANGED <<tx_ring, rx_ring, started, irq_registered, stats, waits,
                   callerVars, irqVars, hwVars, histVars, irqs_off, mem,
                   init_ret>>
    /\ UNCHANGED found
    /\ UNCHANGED exampleVars

\* free_irq(dev->irq, dev)
cleanup_free_irq ==
    /\ cleanup = "free_irq"
    /\ HandlerQuiesced
    /\ irq_registered' = FALSE
    /\ cleanup' = "free_tx"
    /\ UNCHANGED <<tx_ring, rx_ring, regs, started, int_enabled, stats, waits,
                   callerVars, irqVars, hwVars, histVars, irqs_off, mem,
                   init_ret>>
    /\ UNCHANGED found
    /\ UNCHANGED exampleVars

\* free_ring_buffer(dev->pdev, dev->tx_ring); kfree(dev->tx_ring).
cleanup_free_tx ==
    /\ cleanup = "free_tx"
    /\ \E seen \in InitializedRead(tx_ring, mem.tx) :
          /\ mem' = [mem EXCEPT
                       !.tx = cleanup_ring_memory(tx_ring, @, seen)]
          /\ tx_ring' = cleanup_ring(tx_ring, mem.tx, seen)
    /\ cleanup' = "free_rx"
    /\ UNCHANGED <<rx_ring, devVars, stats, waits, callerVars, irqVars,
                   hwVars, histVars, irqs_off, init_ret>>
    /\ UNCHANGED found
    /\ UNCHANGED exampleVars

\* free_ring_buffer(dev->pdev, dev->rx_ring); kfree(dev->rx_ring).
cleanup_free_rx ==
    /\ cleanup = "free_rx"
    /\ \E seen \in InitializedRead(rx_ring, mem.rx) :
          /\ mem' = [mem EXCEPT
                       !.rx = cleanup_ring_memory(rx_ring, @, seen)]
          /\ rx_ring' = cleanup_ring(rx_ring, mem.rx, seen)
    /\ cleanup' = "done"
    /\ UNCHANGED <<tx_ring, devVars, stats, waits, callerVars, irqVars,
                   hwVars, histVars, irqs_off, init_ret>>
    /\ UNCHANGED found
    /\ UNCHANGED exampleVars

(* --------------------------- memory-safety.c -------------------------- *)

PAGE_SIZE == 4096

BUFFER_SIZE == PAGE_SIZE

MAX_TRANSFER_SIZE == 65536

\* The sizes device_init_dma is called with: none, the largest one it
\* accepts, one more.
InitSizes == {0, BUFFER_SIZE, BUFFER_SIZE + 1}

\* The counts a transfer is called with: the whole buffer, one byte more,
\* and more than any transfer may carry.
Counts == {BUFFER_SIZE, BUFFER_SIZE + 1, MAX_TRANSFER_SIZE + 1}

\* The data pointers a transfer is called with: NULL or a user address.
UserPointers == {NULL, 1}

\* mutex_lock returns once the mutex is free.
MutexCanTake(c) == c.lock = "free"

\* The allocations dma_alloc_coherent has not handed out yet.
Unallocated == {a \in Allocs : dma_mem[a] = "none"}

\* device_init_dma: the size checks, then under the mutex -EALREADY for a
\* context that has a buffer, -ENOMEM when dma_alloc_coherent fails, and
\* else the buffer recorded, active set and ref_count set to 1. The
\* SIZE_MAX test cannot be reached: such a size is above BUFFER_SIZE.
device_init_dma(size) ==
    /\ IF size = 0 \/ size > BUFFER_SIZE
       THEN UNCHANGED <<ctx, dma_mem>>
       ELSE /\ MutexCanTake(ctx)
            /\ IF ctx.dma_buffer # NULL
               THEN UNCHANGED <<ctx, dma_mem>>
               ELSE \/ UNCHANGED <<ctx, dma_mem>>
                    \/ /\ Unallocated # {}
                       /\ LET a == CHOOSE x \in Unallocated :
                                     \A y \in Unallocated : x <= y
                          IN  /\ dma_mem' = [dma_mem EXCEPT ![a] = "live"]
                              /\ ctx' = [ctx EXCEPT !.dma_buffer = a,
                                                    !.buffer_size = size,
                                                    !.active = TRUE,
                                                    !.ref_count = 1]
    /\ UNCHANGED <<users, cln, clients, dmaVars, ctrVars>>

\* device_write_dma and device_read_dma up to their call of get_dma_buffer:
\* -EINVAL for a NULL data pointer or a count above MAX_TRANSFER_SIZE.
Transfer(u, op, data, count) ==
    /\ users[u].pc = "idle"
    /\ op \in clients[u]
    /\ IF data = NULL \/ count > MAX_TRANSFER_SIZE
       THEN UNCHANGED users
       ELSE users' = [users EXCEPT ![u].op = op, ![u].count = count,
                                   ![u].pc = "get_lock"]
    /\ UNCHANGED <<ctx, dma_mem, cln, clients, dmaVars, ctrVars>>

device_write_dma(u, data, count) == Transfer(u, "write", data, count)

device_read_dma(u, data, count) == Transfer(u, "read", data, count)

\* A client that calls get_dma_buffer itself, to put the buffer later.
client_get(u) ==
    /\ users[u].pc = "idle"
    /\ "hold" \in clients[u]
    /\ users' = [users EXCEPT ![u].op = "hold", ![u].pc = "get_lock"]
    /\ UNCHANGED <<ctx, dma_mem, cln, clients, dmaVars, ctrVars>>

\* get_dma_buffer: mutex_lock(&ctx->lock)
get_lock(u) ==
    /\ users[u].pc = "get_lock"
    /\ MutexCanTake(ctx)
    /\ ctx' = [ctx EXCEPT !.lock = u]
    /\ users' = [users EXCEPT ![u].pc = "get"]
    /\ UNCHANGED <<dma_mem, cln, clients, dmaVars, ctrVars>>

\* get_dma_buffer under the mutex: NULL for a context that is not active or
\* has no buffer (device_write_dma and device_read_dma then return
\* -ENODEV); else the reference count incremented and the buffer returned.
get_dma_buffer(u) ==
    /\ users[u].pc = "get"
    /\ IF ~ctx.active \/ ctx.dma_buffer = NULL
       THEN /\ ctx' = [ctx EXCEPT !.lock = "free"]
            /\ users' = [users EXCEPT ![u] = UserIdle]
       ELSE /\ ctx' = [ctx EXCEPT !.ref_count = @ + 1, !.lock = "free"]
            /\ users' = [users EXCEPT
                 ![u].buffer = ctx.dma_buffer,
                 ![u].pc = IF users[u].op = "hold" THEN "held"
                                                   ELSE "bounds"]
    /\ UNCHANGED <<dma_mem, cln, clients, dmaVars, ctrVars>>

\* if (count > ctx->buffer_size) { ret = -EOVERFLOW; goto out; }
\* On the way out the buffer is not used any more.
transfer_bounds(u) ==
    /\ users[u].pc = "bounds"
    /\ IF users[u].count > ctx.buffer_size
       THEN users' = [users EXCEPT ![u].ret = "-EOVERFLOW",
                                   ![u].buffer = NULL,
                                   ![u].pc = "put"]
       ELSE users' = [users EXCEPT ![u].pc = "copy"]
    /\ UNCHANGED <<ctx, dma_mem, cln, clients, dmaVars, ctrVars>>

\* copy_from_user(buffer, ...) or copy_to_user(..., buffer, ...): the
\* buffer is dereferenced; the copy faults (-EFAULT) or ret = count.
transfer_copy(u) ==
    /\ users[u].pc = "copy"
    /\ \E fault \in BOOLEAN :
          users' = [users EXCEPT
                      ![u].ret = IF fault THEN "-EFAULT" ELSE "count",
                      ![u].buffer = NULL,
                      ![u].pc = "put"]
    /\ UNCHANGED <<ctx, dma_mem, cln, clients, dmaVars, ctrVars>>

\* put_dma_buffer: atomic_dec(&ctx->ref_count), at the out label of a
\* transfer or called by the client that holds the buffer.
put_dma_buffer(u) ==
    /\ users[u].pc \in {"put", "held"}
    /\ ctx' = [ctx EXCEPT !.ref_count = @ - 1]
    /\ users' = [users EXCEPT ![u] = UserIdle]
    /\ UNCHANGED <<dma_mem, cln, clients, dmaVars, ctrVars>>

\* A slip: the deadline never taken as passed
TimedOut_Never(waited) == FALSE

\* time_after(jiffies, timeout), waited being jiffies - (timeout - 5 s)
TimedOut(waited) == waited > TimeoutJiffies

\* A slip: the clock standing still
Later_Stuck(waited) == waited

\* The jiffies waited one jiffy on; past the deadline they are not
\* counted any further.
Later(waited) == IF TimedOut(waited) THEN waited ELSE waited + 1

\* device_cleanup_dma: mutex_lock; timeout = jiffies + msecs_to_jiffies(5000)
device_cleanup_dma ==
    /\ cln.pc = "idle"
    /\ MutexCanTake(ctx)
    /\ ctx' = [ctx EXCEPT !.lock = "cln"]
    /\ cln' = [cln EXCEPT !.pc = "test", !.waited = 0, !.forced = FALSE]
    /\ UNCHANGED <<dma_mem, users, clients, dmaVars, ctrVars>>

\* while (atomic_read(&ctx->ref_count) > 0) { mutex_unlock(&ctx->lock);
cleanup_dma_test ==
    /\ cln.pc = "test"
    /\ IF ctx.ref_count > 0
       THEN /\ ctx' = [ctx EXCEPT !.lock = "free"]
            /\ cln' = [cln EXCEPT !.pc = "poll"]
       ELSE /\ cln' = [cln EXCEPT !.pc = "free"]
            /\ UNCHANGED ctx
    /\ UNCHANGED <<dma_mem, users, clients, dmaVars, ctrVars>>

\* Past the deadline: the warning and atomic_set(&ctx->ref_count, 0);
\* else msleep(1), which takes a jiffy at least.
cleanup_dma_poll ==
    /\ cln.pc = "poll"
    /\ IF TimedOut(cln.waited)
       THEN /\ ctx' = [ctx EXCEPT !.ref_count = 0]
            /\ cln' = [cln EXCEPT !.pc = "force_lock", !.forced = TRUE]
       ELSE /\ cln' = [cln EXCEPT !.pc = "relock",
                                  !.waited = Later(cln.waited)]
            /\ UNCHANGED ctx
    /\ UNCHANGED <<dma_mem, users, clients, dmaVars, ctrVars>>

\* mutex_lock at the end of the loop body, back to the loop test
cleanup_dma_relock ==
    /\ cln.pc = "relock"
    /\ MutexCanTake(ctx)
    /\ ctx' = [ctx EXCEPT !.lock = "cln"]
    /\ cln' = [cln EXCEPT !.pc = "test"]
    /\ UNCHANGED <<dma_mem, users, clients, dmaVars, ctrVars>>

\* mutex_lock on the forced path; break
cleanup_dma_force ==
    /\ cln.pc = "force_lock"
    /\ MutexCanTake(ctx)
    /\ ctx' = [ctx EXCEPT !.lock = "cln"]
    /\ cln' = [cln EXCEPT !.pc = "free"]
    /\ UNCHANGED <<dma_mem, users, clients, dmaVars, ctrVars>>

\* After the loop: a buffer that is there is cleared and freed and the
\* context's fields are reset; active = false; mutex_unlock.
cleanup_dma_free ==
    /\ cln.pc = "free"
    /\ IF ctx.dma_buffer # NULL
       THEN /\ dma_mem' = [dma_mem EXCEPT ![ctx.dma_buffer] = "freed"]
            /\ ctx' = [ctx EXCEPT !.dma_buffer = NULL, !.buffer_size = 0,
                                  !.active = FALSE, !.lock = "free"]
       ELSE /\ ctx' = [ctx EXCEPT !.active = FALSE, !.lock = "free"]
            /\ UNCHANGED dma_mem
    /\ cln' = [cln EXCEPT !.pc = "idle"]
    /\ UNCHANGED <<users, clients, dmaVars, ctrVars>>

\* A jiffy passes while device_cleanup_dma is under way.
jiffies_tick ==
    /\ cln.pc # "idle"
    /\ ~TimedOut(cln.waited)
    /\ cln' = [cln EXCEPT !.waited = Later(cln.waited)]
    /\ UNCHANGED <<ctx, dma_mem, users, clients, dmaVars, ctrVars>>

(* ---------------------------- key-patterns.c -------------------------- *)

INT_MAX == 2147483647

INT_MIN == -INT_MAX - 1

\* The counter values the threads find: zero and the largest int.
InitialValues == {0, INT_MAX}

\* The deltas counter_increment is called with.
Deltas == {-1, 1, 2}

\* old_value + delta is outside int
Overflows(old_value, delta) ==
    \/ delta > 0 /\ old_value > INT_MAX - delta
    \/ delta < 0 /\ old_value < INT_MIN - delta

\* old_value + delta in 32-bit two's complement
WrapAdd(old_value, delta) ==
    IF delta > 0 /\ old_value > INT_MAX - delta
    THEN INT_MIN + ((delta - (INT_MAX - old_value)) - 1)
    ELSE IF delta < 0 /\ old_value < INT_MIN - delta
         THEN INT_MAX - (((INT_MIN - delta) - old_value) - 1)
         ELSE old_value + delta

\* counter_increment up to its overflow checks: old_value =
\* atomic_read(&ctr->value); new_value = old_value + delta. A sum outside
\* int is undefined: the build either wraps it, and the check returns
\* -EOVERFLOW, or has dropped the check and goes on with the wrapped sum.
counter_increment(t, delta) ==
    /\ incs[t].pc = "idle"
    /\ incs[t].calls < MaxIncrements
    /\ \/ /\ Overflows(ctr.value, delta)
          /\ incs' = [incs EXCEPT ![t].calls = @ + 1]
       \/ incs' = [incs EXCEPT ![t].pc = "set", ![t].delta = delta,
                               ![t].new_value = WrapAdd(ctr.value, delta)]
    /\ UNCHANGED <<ctr, expected, dmaVars, ctxVars>>

\* atomic_set(&ctr->value, new_value); if (list_empty(&ctr->waiters))
\* return 0;
counter_set(t) ==
    /\ incs[t].pc = "set"
    /\ ctr' = [ctr EXCEPT !.value = incs[t].new_value]
    /\ IF ~ctr.waiters
       THEN /\ incs' = [incs EXCEPT ![t] = [IncIdle EXCEPT
                                              !.calls = incs[t].calls + 1]]
            /\ expected' = WrapAdd(expected, incs[t].delta)
       ELSE /\ incs' = [incs EXCEPT ![t].pc = "lock"]
            /\ UNCHANGED expected
    /\ UNCHANGED <<dmaVars, ctxVars>>

\* spin_lock_irqsave(&ctr->lock, flags)
counter_lock(t) ==
    /\ incs[t].pc = "lock"
    /\ ctr.lock = "free"
    /\ ctr' = [ctr EXCEPT !.lock = t]
    /\ incs' = [incs EXCEPT ![t].pc = "wake"]
    /\ UNCHANGED <<expected, dmaVars, ctxVars>>

\* wake_up_all_locked(&ctr->waiters); spin_unlock_irqrestore; return 0
counter_wake(t) ==
    /\ incs[t].pc = "wake"
    /\ ctr' = [ctr EXCEPT !.woken = TRUE, !.lock = "free"]
    /\ incs' = [incs EXCEPT ![t] = [IncIdle EXCEPT
                                      !.calls = incs[t].calls + 1]]
    /\ expected' = WrapAdd(expected, incs[t].delta)
    /\ UNCHANGED <<dmaVars, ctxVars>>

(* --------------------------- specification ---------------------------- *)

Next ==
    \/ init_dma_device
    \/ \E p \in callers : \E f \in Frames(limits.lens) : transmit_packet(p, f)
    \/ \E p \in callers : transmit_copy(p)
    \/ \E p \in callers : update_lock(p)
    \/ \E p \in callers : update_w_addr(p)
    \/ \E p \in callers : update_w_len(p)
    \/ \E p \in callers : update_w_status(p)
    \/ \E p \in callers : update_w_control(p)
    \/ \E p \in callers : update_wmb(p)
    \/ \E p \in callers : update_doorbell(p)
    \/ \E p \in callers : update_advance(p)
    \/ \E p \in callers : transmit_return(p)
    \/ irq_entry
    \/ irq_ack
    \/ irq_tx_lock
    \/ irq_tx_step
    \/ irq_tx_unlock
    \/ irq_rx_lock
    \/ irq_rx_step
    \/ irq_return
    \/ \E i \in Slots : device_tx_done(i)
    \/ device_rx_done

\* The transmit path, the TX completions and the handler, no store being
\* visible to the device before the barrier that orders it.
Spec == Init /\ [][Next]_vars

NextWmb ==
    \/ init_dma_device
    \/ \E p \in callers : \E f \in Frames(limits.lens) : transmit_packet(p, f)
    \/ \E p \in callers : transmit_copy(p)
    \/ \E p \in callers : update_lock(p)
    \/ \E p \in callers : update_w_addr(p)
    \/ \E p \in callers : update_w_len(p)
    \/ \E p \in callers : update_w_status(p)
    \/ \E p \in callers : update_w_control(p)
    \/ \E p \in callers : drain(p)
    \/ \E p \in callers : update_wmb(p)
    \/ \E p \in callers : update_doorbell(p)
    \/ \E p \in callers : update_advance(p)
    \/ \E p \in callers : transmit_return(p)
    \/ irq_entry
    \/ irq_ack
    \/ irq_tx_lock
    \/ irq_tx_step
    \/ irq_tx_unlock
    \/ irq_return
    \/ \E i \in Slots : device_tx_done(i)

\* The same with the write buffer draining in any order before the barrier.
SpecWmb == InitWmb /\ [][NextWmb]_vars

NextRx ==
    \/ init_dma_device
    \/ \E p \in callers : \E f \in Frames(limits.lens) : transmit_packet(p, f)
    \/ irq_entry
    \/ irq_ack
    \/ irq_rx_lock
    \/ irq_rx_step
    \/ irq_return
    \/ device_rx_done

\* The receive side alone.
SpecRx == InitRx /\ [][NextRx]_vars

NextLife ==
    \/ init_dma_device
    \/ \E f \in InitFails : init_dma_device_fails(f)
    \/ \E p \in callers : \E f \in Frames(limits.lens) : transmit_packet(p, f)
    \/ \E p \in callers : transmit_copy(p)
    \/ \E p \in callers : update_lock(p)
    \/ \E p \in callers : update_w_addr(p)
    \/ \E p \in callers : update_w_len(p)
    \/ \E p \in callers : update_w_status(p)
    \/ \E p \in callers : update_w_control(p)
    \/ \E p \in callers : update_wmb(p)
    \/ \E p \in callers : update_doorbell(p)
    \/ \E p \in callers : update_advance(p)
    \/ \E p \in callers : transmit_return(p)
    \/ irq_entry
    \/ irq_ack
    \/ irq_tx_lock
    \/ irq_tx_step
    \/ irq_tx_unlock
    \/ irq_return
    \/ \E i \in Slots : device_tx_done(i)
    \/ cleanup_dma_device
    \/ cleanup_int_off
    \/ cleanup_free_irq
    \/ cleanup_free_tx
    \/ cleanup_free_rx

\* The life of the device: a bring-up that succeeds or fails at any step,
\* transmits and TX completions, and a teardown that starts at any moment.
SpecLife == InitLife /\ [][NextLife]_vars

\* What the scheduler, the interrupt controller and the device see to: a
\* thread inside transmit_packet goes on running, a handler that was
\* entered goes on running, a raised interrupt is delivered, and the device
\* completes every descriptor it was notified of.
Fairness ==
    /\ \A p \in AllCallers :
          /\ WF_vars(transmit_copy(p))
          /\ WF_vars(update_lock(p))
          /\ WF_vars(update_w_addr(p))
          /\ WF_vars(update_w_len(p))
          /\ WF_vars(update_w_status(p))
          /\ WF_vars(update_w_control(p))
          /\ WF_vars(update_wmb(p))
          /\ WF_vars(update_doorbell(p))
          /\ WF_vars(update_advance(p))
          /\ WF_vars(transmit_return(p))
    /\ WF_vars(irq_entry)
    /\ WF_vars(irq_ack)
    /\ WF_vars(irq_tx_lock)
    /\ WF_vars(irq_tx_step)
    /\ WF_vars(irq_tx_unlock)
    /\ WF_vars(irq_rx_lock)
    /\ WF_vars(irq_rx_step)
    /\ WF_vars(irq_return)
    /\ \A i \in Slots : WF_vars(device_tx_done(i))

\* The started device with both rings at work, under fair scheduling.
SpecFair == InitFair /\ [][Next]_vars /\ Fairness

\* Two client threads, device_init_dma and device_cleanup_dma on one
\* device_context.
InitCtx ==
    /\ Uninitialized
    /\ CounterAt(0, FALSE)
    /\ callers = {}
    /\ limits = [rx_frames |-> 0, interrupts |-> 0, lens |-> {},
                 cpus |-> {}, lifecycle |-> "once"]
    /\ clients = [u \in Users |-> IF u = "u1" THEN {"write", "read"}
                                              ELSE {"write", "hold"}]

NextCtx ==
    \/ \E size \in InitSizes : device_init_dma(size)
    \/ \E u \in DOMAIN clients :
          \E data \in UserPointers : \E count \in Counts :
             device_write_dma(u, data, count)
    \/ \E u \in DOMAIN clients :
          \E data \in UserPointers : \E count \in Counts :
             device_read_dma(u, data, count)
    \/ \E u \in DOMAIN clients : client_get(u)
    \/ \E u \in DOMAIN clients : get_lock(u)
    \/ \E u \in DOMAIN clients : get_dma_buffer(u)
    \/ \E u \in DOMAIN clients : transfer_bounds(u)
    \/ \E u \in DOMAIN clients : transfer_copy(u)
    \/ \E u \in DOMAIN clients : put_dma_buffer(u)
    \/ device_cleanup_dma
    \/ cleanup_dma_test
    \/ cleanup_dma_poll
    \/ cleanup_dma_relock
    \/ cleanup_dma_force
    \/ cleanup_dma_free
    \/ jiffies_tick

\* memory-safety.c: the reference-counted DMA buffer of a device_context.
SpecCtx == InitCtx /\ [][NextCtx]_vars

\* What the scheduler sees to: device_cleanup_dma goes on running, a
\* thread that holds the mutex goes on to release it, and a thread that
\* waits for the mutex gets it in the end. Nothing makes a client go on
\* once it has its reference.
FairnessCtx ==
    /\ WF_vars(cleanup_dma_test)
    /\ WF_vars(cleanup_dma_poll)
    /\ SF_vars(cleanup_dma_relock)
    /\ SF_vars(cleanup_dma_force)
    /\ WF_vars(cleanup_dma_free)
    /\ \A u \in Users : WF_vars(get_dma_buffer(u))

SpecCtxLive == InitCtx /\ [][NextCtx]_vars /\ FairnessCtx

\* Two threads increment one counter, which starts at zero or at the
\* largest int and has waiters or has none.
InitCounter ==
    /\ Uninitialized
    /\ callers = {}
    /\ limits = [rx_frames |-> 0, interrupts |-> 0, lens |-> {},
                 cpus |-> {}, lifecycle |-> "once"]
    /\ clients = <<>>
    /\ \E value \in InitialValues : \E waiters \in BOOLEAN :
          CounterAt(value, waiters)

NextCounter ==
    \/ \E t \in Incrementers : \E delta \in Deltas :
          counter_increment(t, delta)
    \/ \E t \in Incrementers : counter_set(t)
    \/ \E t \in Incrementers : counter_lock(t)
    \/ \E t \in Incrementers : counter_wake(t)

\* key-patterns.c: concurrent counter_increment calls on one counter.
SpecCounter == InitCounter /\ [][NextCounter]_vars

\* The lifecycle calls alone: a bring-up that succeeds or fails at any
\* step, then cleanup_dma_device as often as its caller likes.
InitCycle ==
    /\ Uninitialized
    /\ CounterAt(0, FALSE)
    /\ clients = <<>>
    /\ callers = {}
    /\ limits = [rx_frames |-> 0, interrupts |-> 0, lens |-> {},
                 cpus |-> {}, lifecycle |-> "any"]

NextCycle ==
    \/ init_dma_device
    \/ \E f \in InitFails : init_dma_device_fails(f)
    \/ cleanup_dma_device
    \/ cleanup_int_off
    \/ cleanup_free_irq
    \/ cleanup_free_tx
    \/ cleanup_free_rx

SpecCycle == InitCycle /\ [][NextCycle]_vars

(* ------------------------------ claims -------------------------------- *)

\* C1: in every reachable state of the TX ring, whatever transmit_packet
\* calls and TX interrupts came before, 0 <= count <= size: count never
\* exceeds the capacity and never goes negative.
C1_CountWithinCapacity ==
    /\ 0 <= tx_ring.count
    /\ tx_ring.count <= tx_ring.size
    /\ tx_ring.size \in {0, RING_SIZE}

\* C1 witness: the ring is full again after slots were reclaimed and reused.
C1_FullAfterWrap ==
    /\ tx_ring.count = RING_SIZE
    /\ tx_ring.tail # 0
    /\ stats.tx_packets > RING_SIZE

\* C2: whenever the TX ring's lock is free, (tail + count) mod size = head,
\* from head = tail = count = 0 at construction on.
C2_HeadTailCount ==
    /\ (tx_ring.initialized /\ tx_ring.lock = "free") =>
          (tx_ring.tail + tx_ring.count) % tx_ring.size = tx_ring.head
    /\ (tx_ring.initialized /\ everPublished = {}) =>
          (tx_ring.head = 0 /\ tx_ring.tail = 0 /\ tx_ring.count = 0)

\* C2 witness: the lock is free and the outstanding slots wrap round the
\* end of the array.
C2_WrappedAtRest ==
    /\ tx_ring.initialized
    /\ tx_ring.lock = "free"
    /\ tx_ring.count >= 2
    /\ tx_ring.head <= tx_ring.tail
    /\ tx_ring.head > 0

\* The status word of TX slot i has the DONE bit.
TxDoneBit(i) == tx_ring.desc[i].status % 2 = 1

\* The control word of TX slot i has the Hardware ownership bit.
TxOwnerHw(i) == DESC_FLAG_OWNER_HW \subseteq tx_ring.desc[i].control

\* The slots of a sequence.
Range(q) == {q[n] : n \in 1 .. Len(q)}

\* C3: TX reclaim is FIFO.  A step that reclaims a slot is a step of the TX
\* scan, the slot is the one at tail, it is the oldest published slot not
\* yet reclaimed, and its DONE bit is set; a step of the scan that finds the
\* DONE bit of the slot at tail clear ends the scan and reclaims nothing, so
\* no completed slot behind a pending one is reclaimed in that invocation.
C3_FifoReclaim ==
    [][/\ (tx_ring'.count < tx_ring.count \/ tx_ring'.tail # tx_ring.tail) =>
            /\ irq.pc = "tx_loop"
            /\ pubOrder # <<>>
            /\ tx_ring.tail = Head(pubOrder)
            /\ TxDoneBit(tx_ring.tail)
            /\ tx_ring'.tail = (tx_ring.tail + 1) % RING_SIZE
            /\ tx_ring'.count = tx_ring.count - 1
            /\ pubOrder' = Tail(pubOrder)
       /\ (irq.pc = "tx_loop" /\ irq' # irq /\ ~TxDoneBit(tx_ring.tail)) =>
            /\ irq'.pc = "tx_unlock"
            /\ tx_ring' = tx_ring
      ]_vars

\* C3 witness: the scan reclaimed a slot and stopped at a pending one,
\* behind which a slot is already completed.
C3_StoppedBeforeCompleted ==
    /\ irq.pc = "tx_unlock"
    /\ irq.iter >= 1
    /\ tx_ring.count >= 2
    /\ ~TxDoneBit(tx_ring.tail)
    /\ TxDoneBit((tx_ring.tail + 1) % RING_SIZE)

\* C4: a TX slot that was never published, or that was published and has
\* been reclaimed, shows Software ownership in its control word (the bit
\* goes to Hardware only by a publish and back only by a reclaim).
C4_OwnershipFollowsRing ==
    \A i \in Slots :
        (tx_ring.initialized /\ i \notin Range(pubOrder)) => ~TxOwnerHw(i)

\* C5: software stores to a descriptor's buffer_addr, length or control
\* only while the descriptor's ownership bit is Software.
C5_StoreOnlyWhenSoftwareOwned ==
    [][\A p \in AllCallers :
          (\E st \in wbuf'[p] \ wbuf[p] :
               st[1] \in {"buffer_addr", "length", "control"})
          => ~TxOwnerHw(idx[p])
      ]_vars

\* The fields with a store still in caller p's write buffer.
Pending(p) == {st[1] : st \in wbuf[p]}

\* C6: in a publish the barrier comes between the stores to buffer_addr and
\* length and the store to the control word, so a device that sees the
\* control word of the publish in memory sees its address and length too.
C6_PayloadVisibleBeforeControl ==
    \A p \in AllCallers :
        (pc[p] = "wmb" /\ "control" \notin Pending(p)) =>
            /\ tx_ring.desc[idx[p]].length = frame[p].len
            /\ tx_ring.desc[idx[p]].buffer_addr = tx_ring.data_addrs[idx[p]]

\* The calls of transmit_packet on a started device with a length in range.
ValidCall(p, f) ==
    /\ started
    /\ f.len <= MAX_FRAME_SIZE
    /\ transmit_packet(p, f)

\* C7: with no completion in between, the calls up to the ring's capacity
\* all claim a slot; a call on a full ring returns -ENOBUFS, adds exactly
\* one to overflow_count and leaves head, tail, count, the descriptors,
\* tx_packets and the registers as they were.
C7_Backpressure ==
    /\ [](\A p \in callers :
            (stats.interrupts = 0 /\ pc[p] = "idle") =>
                /\ tx_ring.count = stats.tx_packets
                /\ tx_ring.overflow_count > 0 => tx_ring.count = RING_SIZE)
    /\ [][\A p \in AllCallers : \A f \in Frames(Lens) :
            ValidCall(p, f) =>
               IF tx_ring.count = RING_SIZE
               THEN /\ ret'[p] = "ENOBUFS"
                    /\ pc'[p] = "idle"
                    /\ tx_ring' = [tx_ring EXCEPT
                         !.overflow_count = tx_ring.overflow_count + 1]
                    /\ UNCHANGED <<stats, regs, rx_ring, hwq>>
               ELSE /\ pc'[p] = "copy"
                    /\ idx'[p] = tx_ring.head
                    /\ ret'[p] # "ENOBUFS"
                    /\ tx_ring' = tx_ring
         ]_vars

\* C7 witness: RING_SIZE transmits succeeded, nothing completed, and the
\* next call was refused: overflow_count is 1.
C7_FirstRefusal ==
    /\ ret["t1"] = "ENOBUFS"
    /\ tx_ring.overflow_count = 1
    /\ tx_ring.count = RING_SIZE
    /\ stats.tx_packets = RING_SIZE
    /\ stats.interrupts = 0

\* C8: a TX scan during which the device completes nothing more reclaims
\* exactly the k slots that showed DONE from tail on when it began: tail has
\* moved by k modulo size, count is down by k and head is where it was; and
\* after a scan that reclaimed from a full ring, the next transmit_packet
\* claims a slot, one of those reclaimed.
C8_ReclaimsCompletedPrefix ==
    /\ []((irq.pc = "tx_unlock" /\ scan.quiet) =>
            /\ irq.iter = scan.k
            /\ tx_ring.tail = (scan.tail + scan.k) % RING_SIZE
            /\ tx_ring.count = scan.count - scan.k
            /\ tx_ring.head = scan.head)
    /\ [][\A p \in AllCallers : \A f \in Frames(Lens) :
            (lastFreed # {} /\ ValidCall(p, f)) =>
                /\ pc'[p] = "copy"
                /\ idx'[p] \in lastFreed
         ]_vars

\* C8 witness: two slots were reclaimed from a full ring and the next
\* transmit has claimed one of them.
C8_ClaimsFreedSlot ==
    /\ pc["t1"] = "copy"
    /\ Cardinality(lastFreed) = 2
    /\ idx["t1"] \in lastFreed
    /\ tx_ring.count = RING_SIZE - 2

\* C9: transmit_packet on a device that is not started, or with a length
\* over MAX_FRAME_SIZE, returns -EINVAL and changes nothing else: the ring
\* lock is not taken, and head, tail, count, the descriptors, the data
\* buffers, the counters and the registers are as before.
C9_InvalidArgument ==
    [][\A p \in AllCallers : \A f \in Frames(Lens) :
          ((~started \/ f.len > MAX_FRAME_SIZE) /\ transmit_packet(p, f)) =>
              /\ ret'[p] = "EINVAL"
              /\ UNCHANGED <<tx_ring, rx_ring, regs, stats, started,
                             int_enabled, irq_registered, waits, pc, idx,
                             frame, wbuf, irq, irqret, hwq, rx_hw>>
      ]_vars

\* C9 witness: a call was refused while the interrupt handler held the TX
\* ring's lock.
C9_RefusedWhileLocked ==
    /\ ret["t1"] = "EINVAL"
    /\ started
    /\ tx_ring.lock = "irq"

\* C10: every loop of device_interrupt ends: neither the TX nor the RX
\* loop goes round more often than the ring has slots.
C10_LoopsBounded == irq.iter <= RING_SIZE

\* C16: tx_wait is signalled only by the interrupt handler on its way out,
\* after its TX scan reclaimed at least one slot; no step that freed no TX
\* slot signals it.
C16_WakeOnlyAfterReclaim ==
    [][waits'.tx_wait # waits.tx_wait =>
          /\ irq.pc = "wake"
          /\ irq.tx_complete
      ]_vars

\* C19: once an invocation of device_interrupt that saw the TX status bit
\* has finished a TX scan that reclaimed nothing, underrun_count has been
\* incremented.
C19_UnderrunCounted ==
    (/\ irq.pc \in {"rx", "rx_loop", "wake"}
     /\ HasBit(irq.status, INT_STATUS_TX)
     /\ ~irq.tx_complete)
    => tx_ring.underrun_count >= 1

\* C17: an invocation of device_interrupt that reads INT_STATUS as zero
\* returns IRQ_NONE and changes nothing: no register, no lock, no ring, no
\* counter and no wait queue.
C17_SpuriousInterrupt ==
    [][(regs.INT_STATUS = 0 /\ irq_entry) =>
          /\ irqret' = "IRQ_NONE"
          /\ UNCHANGED <<tx_ring, rx_ring, regs, started, int_enabled,
                         irq_registered, stats, waits, callerVars, irq,
                         hwVars>>
      ]_vars

\* C17 witness: the handler returned IRQ_NONE while the TX ring holds
\* published slots and the status register is clear.
C17_NoneWithWorkOutstanding ==
    /\ irqret = "IRQ_NONE"
    /\ irq.pc = "idle"
    /\ regs.INT_STATUS = 0
    /\ tx_ring.count > 0
    /\ stats.interrupts = 0

\* C18: the acknowledge clears in INT_STATUS exactly the bits the handler
\* read and leaves every other bit and register alone; when no event came
\* between the read and the acknowledge the register is then zero, and an
\* invocation that reads zero returns IRQ_NONE.
C18_AckExactlyObserved ==
    [][/\ irq_ack =>
            /\ \A b \in {INT_STATUS_TX, INT_STATUS_RX} :
                  HasBit(regs'.INT_STATUS, b) <=>
                      (HasBit(regs.INT_STATUS, b) /\ ~HasBit(irq.status, b))
            /\ regs' = [regs EXCEPT !.INT_STATUS = regs'.INT_STATUS]
            /\ regs.INT_STATUS = irq.status => regs'.INT_STATUS = 0
       /\ (irq_entry /\ regs.INT_STATUS = 0) =>
            (irq'.pc = "idle" /\ irqret' = "IRQ_NONE")
      ]_vars

\* C18 witness: the handler read the TX bit alone and has acknowledged it;
\* the RX bit, raised since, is still set.
C18_LaterEventSurvives ==
    /\ irq.pc = "tx"
    /\ irq.status = INT_STATUS_TX
    /\ regs.INT_STATUS = INT_STATUS_RX

\* C20: while the TX ring is built, overflow_count equals the number of
\* transmit_packet calls that returned -ENOBUFS since its construction, and
\* no step decreases or resets it.
C20_OverflowCountsFullReturns ==
    /\ [](tx_ring.initialized => tx_ring.overflow_count = fullReturns)
    /\ [][(tx_ring.initialized /\ tx_ring'.initialized) =>
             tx_ring'.overflow_count >= tx_ring.overflow_count]_vars

\* C20 witness: a call was refused and every slot has since been reclaimed:
\* the counter still shows the refusal.
C20_CountKeptAfterReclaim ==
    /\ tx_ring.overflow_count >= 1
    /\ fullReturns >= 1
    /\ tx_ring.count = 0
    /\ tx_ring.lock = "free"

\* The positions of update_tx_descriptor between its lock and its unlock.
InPublish(p) ==
    pc[p] \in {"w_addr", "w_len", "w_status", "w_control", "wmb", "doorbell",
               "advance"}

\* A step writes head, tail, count or a descriptor field of the TX ring.
TxRingWritten ==
    \/ tx_ring'.head # tx_ring.head
    \/ tx_ring'.tail # tx_ring.tail
    \/ tx_ring'.count # tx_ring.count
    \/ tx_ring'.desc # tx_ring.desc
    \/ wbuf' # wbuf

\* The same of the RX ring.
RxRingWritten ==
    \/ rx_ring'.head # rx_ring.head
    \/ rx_ring'.tail # rx_ring.tail
    \/ rx_ring'.count # rx_ring.count
    \/ rx_ring'.desc # rx_ring.desc

\* C15: once the rings are built, a step of transmit_packet or
\* update_tx_descriptor that writes head, tail, count or a descriptor field
\* is taken by the holder of the ring's lock, and so is a step of
\* device_interrupt; the holder runs with local interrupts masked; and a
\* ring's critical section has one context in it at a time.
C15_WritesUnderLock ==
    /\ [](/\ \A p \in AllCallers :
               InPublish(p) => (tx_ring.lock = p /\ p \in irqs_off)
          /\ irq.pc \in {"tx_loop", "tx_unlock"} =>
               (tx_ring.lock = "irq" /\ "irq" \in irqs_off)
          /\ irq.pc = "rx_loop" =>
               (rx_ring.lock = "irq" /\ "irq" \in irqs_off)
          /\ tx_ring.lock # "free" => tx_ring.lock \in irqs_off
          /\ rx_ring.lock # "free" => rx_ring.lock \in irqs_off)
    /\ [][tx_ring.initialized =>
            /\ \A p \in AllCallers :
                  ((pc'[p] # pc[p] \/ wbuf'[p] # wbuf[p]) /\ TxRingWritten)
                      => tx_ring.lock = p
            /\ (irq' # irq /\ TxRingWritten) => tx_ring.lock = "irq"
            /\ (irq' # irq /\ RxRingWritten) => rx_ring.lock = "irq"
            /\ \A p \in AllCallers :
                  (pc'[p] # pc[p]) => ~RxRingWritten
         ]_vars

\* C15 witness: the interrupt handler is waiting for the TX ring's lock
\* while a publish, inside it, is about to store the control word.
C15_HandlerKeptOut ==
    /\ pc["t1"] = "w_control"
    /\ tx_ring.lock = "t1"
    /\ irq.pc = "tx"
    /\ tx_ring.count >= 1

\* The states of a ring's allocations, the structure aside.
RingMemStates(m) ==
    {m.desc, m.data_buffers, m.data_addrs} \cup {m.data[i] : i \in Slots}

\* Every allocation of a ring is live.
RingLive(m) == RingMemStates(m) \cup {m.struct} = {"live"}

C12_NoFreeWhilePublished ==
    \A i \in Slots :
        mem.tx.data[i] = "freed" => i \notin Range(pubOrder)

\* C13: when alloc_ring_buffer fails at an allocation, everything it
\* allocated before is freed exactly once, nothing else is touched, the
\* ring's initialized flag is false and the bring-up returns -ENOMEM.
C13_AllocRollback ==
    \A r \in {"tx", "rx"} :
        init_ret.fail.step = (IF r = "tx" THEN "tx_alloc" ELSE "rx_alloc") =>
            LET f == init_ret.fail
                m == mem[r]
                ring == IF r = "tx" THEN tx_ring ELSE rx_ring
            IN  /\ init_ret.code = "ENOMEM"
                /\ ~ring.initialized
                /\ m.desc = IF f.at = "desc" THEN "none" ELSE "freed"
                /\ m.data_buffers = IF f.at \in {"desc", "data_buffers"}
                                    THEN "none" ELSE "freed"
                /\ m.data_addrs = IF f.at = "data" THEN "freed" ELSE "none"
                /\ \A j \in Slots :
                      m.data[j] = IF f.at = "data" /\ j < f.i
                                  THEN "freed" ELSE "none"

\* C13 witness: the last data buffer of the RX ring could not be allocated.
C13_LastBufferFailed ==
    /\ init_ret.fail.step = "rx_alloc"
    /\ init_ret.fail.at = "data"
    /\ init_ret.fail.i = RING_SIZE - 1
    /\ mem.rx.data[RING_SIZE - 2] = "freed"

\* C14: after an init_dma_device that returned an error nothing is left
\* allocated, nothing was freed twice, and the device is disabled as it was
\* before: INT_ENABLE is 0, int_enabled and started are false and no handler
\* is registered.
C14_BringUpAllOrNothing ==
    init_ret.code \notin {"none", "OK"} =>
        /\ \A r \in {"tx", "rx"} :
              (RingMemStates(mem[r]) \cup {mem[r].struct})
                  \subseteq {"none", "freed"}
        /\ ~tx_ring.initialized
        /\ ~rx_ring.initialized
        /\ regs.INT_ENABLE = 0
        /\ ~int_enabled
        /\ ~started
        /\ ~irq_registered

\* C21: the RX ring obeys the ring invariant: whenever its lock is free,
\* (tail + count) mod size = head and 0 <= count <= size, the handler
\* moving tail and count for every RX descriptor it finds DONE.
C21_RxHeadTailCount ==
    (rx_ring.initialized /\ rx_ring.lock = "free") =>
        /\ (rx_ring.tail + rx_ring.count) % rx_ring.size = rx_ring.head
        /\ 0 <= rx_ring.count
        /\ rx_ring.count <= rx_ring.size

\* C27: transmit_packet locks in two phases.  The claim takes idx = head
\* and leaves the lock free; during the payload copy the caller does not
\* hold the lock and the interrupt handler may take it; from the lock of
\* update_tx_descriptor to its unlock the caller holds it; and no step of
\* the handler changes head, so the slot claimed is still the one at head
\* when the publish begins.
C27_TwoPhaseLocking ==
    /\ [](\A p \in callers :
            /\ pc[p] \in {"copy", "update"} =>
                  (tx_ring.lock # p /\ idx[p] = tx_ring.head)
            /\ InPublish(p) => tx_ring.lock = p)
    /\ [][/\ irq' # irq => tx_ring'.head = tx_ring.head
          /\ \A p \in AllCallers : \A f \in Frames(Lens) :
                (ValidCall(p, f) /\ pc'[p] = "copy") =>
                    (tx_ring.lock = "free" /\ tx_ring'.lock = "free")
          /\ \A p \in AllCallers :
                (pc[p] = "copy" /\ pc'[p] = "update") =>
                    /\ tx_ring.lock # p
                    /\ tx_ring'.data_buffers[idx[p]] = Memcpy(frame[p])
         ]_vars

\* C27 witness: between the claim and the publish of a transmit, the
\* handler is inside the TX ring's lock and has reclaimed a slot.
C27_HandlerBetweenPhases ==
    /\ pc["t1"] = "update"
    /\ tx_ring.lock = "irq"
    /\ irq.pc = "tx_loop"
    /\ irq.iter >= 1
    /\ idx["t1"] = tx_ring.head

\* C30: an invocation of device_interrupt that reclaimed a TX slot signals
\* tx_wait, and one that consumed an RX completion signals rx_wait, in the
\* step in which it returns, holding neither ring lock by then.
C30_WakeBeforeReturn ==
    [][/\ (irq' # irq /\ tx_ring'.count < tx_ring.count) => irq'.tx_complete
       /\ (irq' # irq /\ rx_ring'.head # rx_ring.head) => irq'.rx_complete
       /\ (irq.pc \notin {"idle", "wake"} /\ irq'.pc # "wake") =>
             /\ irq'.pc # "idle"
             /\ irq.tx_complete => irq'.tx_complete
             /\ irq.rx_complete => irq'.rx_complete
       /\ (irq.pc = "wake" /\ irq' # irq) =>
             /\ irq'.pc = "idle"
             /\ irqret' = "IRQ_HANDLED"
             /\ tx_ring.lock # "irq"
             /\ rx_ring.lock # "irq"
             /\ irq.tx_complete => waits'.tx_wait = "irq"
             /\ irq.rx_complete => waits'.rx_wait = "irq"
      ]_vars

\* C30 witness: an invocation that reclaimed a TX slot and consumed an RX
\* completion has returned, both wait queues signalled by it.
C30_BothSignalled ==
    /\ irq.pc = "idle"
    /\ irqret = "IRQ_HANDLED"
    /\ waits.tx_wait = "irq"
    /\ waits.rx_wait = "irq"
    /\ stats.interrupts = 1
    /\ stats.rx_packets >= 1

\* The descriptor a publish by caller p is to leave in its slot.
Published(p) ==
    [buffer_addr |-> cpu_to_le32(tx_ring.data_addrs[idx[p]]),
     length |-> cpu_to_le32(frame[p].len),
     status |-> 0,
     control |-> PublishControl]

\* C28: the claim leaves head where it is, and head stays at the claimed
\* slot until the last step of the publish; the doorbell is written, and
\* head and count advance, only when the four descriptor fields are in
\* memory and no store is left behind the barrier; so every slot the device
\* has been notified of holds a whole descriptor.
C28_WholeDescriptorBeforeDoorbell ==
    /\ [](/\ \A p \in callers :
               /\ pc[p] \notin {"idle", "tx_inc"} => tx_ring.head = idx[p]
               /\ pc[p] = "doorbell" =>
                     (wbuf[p] = {} /\ tx_ring.desc[idx[p]] = Published(p))
               /\ pc[p] = "advance" =>
                     (wbuf[p] = {} /\ tx_ring.desc[idx[p]] \in
                         {Published(p),
                          [Published(p) EXCEPT !.status = DESC_STATUS_DONE]})
          /\ \A i \in hwq :
               /\ tx_ring.desc[i].control = PublishControl
               /\ tx_ring.desc[i].buffer_addr = tx_ring.data_addrs[i]
               /\ tx_ring.desc[i].length \in Lens
               /\ tx_ring.desc[i].status = 0)
    /\ [][started =>
            /\ (regs'.TX_RING_PTR # regs.TX_RING_PTR \/ hwq' \ hwq # {}) =>
                  \E p \in callers :
                     /\ pc[p] = "doorbell"
                     /\ hwq' \ hwq \subseteq {idx[p]}
                     /\ regs'.TX_RING_PTR = idx[p]
            /\ (tx_ring'.head # tx_ring.head
                   \/ tx_ring'.count > tx_ring.count) =>
                  \E p \in callers : pc[p] = "advance"
         ]_vars

\* C28 witness: before the barrier a publish has its control word in
\* memory and its length still on the way; the device has not been told of
\* the slot and head is still at it.
C28_HalfWrittenNotExposed ==
    /\ pc["t1"] = "wmb"
    /\ "control" \notin Pending("t1")
    /\ "length" \in Pending("t1")
    /\ idx["t1"] \notin hwq
    /\ tx_ring.head = idx["t1"]
    /\ tx_ring.count >= 1

\* C26: whatever a publish finds in its slot - the descriptor of an
\* earlier publish, completed and reclaimed - once its stores are in memory
\* the slot holds buffer_addr, length, status = 0 and control of this
\* publish and nothing of the earlier one.
C26_ReuseLeavesNothingStale ==
    \A p \in callers :
        pc[p] = "doorbell" =>
            /\ tx_ring.desc[idx[p]].buffer_addr = tx_ring.data_addrs[idx[p]]
            /\ tx_ring.desc[idx[p]].length = frame[p].len
            /\ tx_ring.desc[idx[p]].status = 0
            /\ tx_ring.desc[idx[p]].control =
                  DESC_FLAG_OWNER_HW \cup DESC_FLAG_INTR_ENABLE

\* C26 witness: a slot published before with another length, completed and
\* reclaimed, has been published again.
C26_SecondPublishOfSlot ==
    /\ pc["t1"] = "doorbell"
    /\ idx["t1"] \in everPublished
    /\ found["t1"].status = DESC_STATUS_DONE
    /\ found["t1"].length # frame["t1"].len
    /\ found["t1"].control = PublishControl

\* C22: every published TX descriptor is eventually reclaimed, whatever
\* the RX ring is doing, when the device completes what it was notified of
\* and interrupts are delivered.
C22_TxEventuallyReclaimed ==
    \A i \in Slots : (i \in Range(pubOrder)) ~> (i \notin Range(pubOrder))

\* C29: the handler never runs on a CPU whose interrupted thread holds a
\* ring lock; no context holds both ring locks; and a ring lock that is
\* taken is released again.
C29_NoDeadlock ==
    /\ [](irq.cpu \in AllCallers =>
            (tx_ring.lock # irq.cpu /\ rx_ring.lock # irq.cpu))
    /\ [](tx_ring.lock = "free" \/ rx_ring.lock = "free"
            \/ tx_ring.lock # rx_ring.lock)
    /\ (tx_ring.lock # "free") ~> (tx_ring.lock = "free")
    /\ (rx_ring.lock # "free") ~> (rx_ring.lock = "free")

\* The client threads that hold a reference: get_dma_buffer has returned
\* the buffer to them and their put_dma_buffer has not run yet.
Holders == {u \in Users : users[u].pc \in {"bounds", "copy", "put", "held"}}

\* C23: when device_cleanup_dma frees the buffer no client holds a
\* reference to it, and a transfer never copies to or from a buffer that
\* has been freed.
C23_NoFreeWhileReferenced ==
    /\ [][(cleanup_dma_free /\ ctx.dma_buffer # NULL) => Holders = {}]_vars
    /\ [][\A u \in Users :
            transfer_copy(u) => dma_mem[users[u].buffer] = "live"]_vars

\* C24: device_cleanup_dma, once entered, returns, whatever the clients
\* do with their references; past the deadline the poll forces ref_count
\* to 0 and leaves the loop; and the function's last step leaves no
\* buffer, the buffer it found freed, active false and the mutex free.
C24_CleanupTerminates ==
    /\ (cln.pc # "idle") ~> (cln.pc = "idle")
    /\ [][(cleanup_dma_poll /\ TimedOut(cln.waited))
            => (ctx'.ref_count = 0 /\ cln'.pc = "force_lock")]_vars
    /\ [][cleanup_dma_free
            => /\ cln'.pc = "idle"
               /\ ctx'.dma_buffer = NULL
               /\ ~ctx'.active
               /\ ctx'.lock = "free"
               /\ ctx.dma_buffer # NULL
                    => dma_mem'[ctx.dma_buffer] = "freed"]_vars

\* device_cleanup_dma has returned by way of the deadline, the buffer is
\* freed, and a client still has the reference it never released.
C24_ForcedWithReferenceOut ==
    /\ cln.pc = "idle"
    /\ cln.forced
    /\ ctx.dma_buffer = NULL
    /\ \E a \in Allocs : dma_mem[a] = "freed"
    /\ \E u \in Users : users[u].pc = "held"

\* C25: once the concurrent counter_increment calls have returned, the
\* counter holds its first value plus the deltas of the calls that
\* returned 0.
C25_NoLostUpdate ==
    (\A t \in Incrementers : incs[t].pc = "idle") => ctr.value = expected

\* C34: while the device is started the TX ring base register holds the
\* DMA address of the TX descriptor array that setup_dma_rings wrote there.
C34_BaseRegisterKept ==
    started => regs.TX_RING_PTR = tx_ring.dma_addr

\* C35: device_cleanup_dma forces ref_count to 0 only when, at the
\* deadline, a client holds a reference it has not released; with every
\* get_dma_buffer matched by its put_dma_buffer the buffer is freed
\* without the forced path.
C35_ForcedOnlyWithReferenceOut ==
    [][(cleanup_dma_poll /\ TimedOut(cln.waited)) => Holders # {}]_vars

\* A transfer returns: from get_dma_buffer without a reference, or from
\* put_dma_buffer, which gives back the one reference it took.
TransferBalanced(u) ==
    (users[u].op \in {"write", "read"}
       /\ users[u].pc # "idle" /\ users'[u].pc = "idle")
    => ctx'.ref_count = IF users[u].pc = "get" THEN ctx.ref_count
                                               ELSE ctx.ref_count - 1

\* C36: ref_count is never negative, and a transfer gives back on every
\* return path exactly the reference it took.
C36_RefCountNeverNegative ==
    /\ [](ctx.ref_count >= 0)
    /\ [][\A u \in Users : TransferBalanced(u)]_vars

\* C31: whatever lifecycle calls are made, no allocation of a ring is freed
\* twice (or freed without having been made), and cleanup_dma_device hands
\* a ring structure to free_ring_buffer, which reads its initialized flag,
\* only while that structure is live.
C31_FreedOnceNeverReadAfter ==
    /\ []("bad" \notin (RingMemStates(mem.tx) \cup {mem.tx.struct}
                          \cup RingMemStates(mem.rx) \cup {mem.rx.struct}))
    /\ [][(cleanup_free_tx /\ mem.tx.struct # "none")
            => mem.tx.struct = "live"]_vars
    /\ [][(cleanup_free_rx /\ mem.rx.struct # "none")
            => mem.rx.struct = "live"]_vars

\* The steps of a transmit past its started check that read or write the
\* TX ring structure, a TX descriptor or a TX data buffer.
TouchesTxRing(p) ==
    \/ transmit_copy(p)
    \/ update_lock(p)
    \/ update_w_addr(p)
    \/ update_w_len(p)
    \/ update_w_status(p)
    \/ update_w_control(p)
    \/ update_advance(p)

\* C32: a transmit that has passed the started check touches the TX ring
\* structure, its descriptors and its data buffers only while they are
\* live, whenever cleanup_dma_device runs.
C32_TransmitDrainedBeforeFree ==
    [][\A p \in AllCallers : TouchesTxRing(p) => RingLive(mem.tx)]_vars

(* ------------------------- two transmitters --------------------------- *)

\* Two threads transmit frames of the largest length on the same ring with
\* nothing serializing them; nothing is received.
InitTwo ==
    /\ Uninitialized
    /\ CounterAt(0, FALSE)
    /\ clients = <<>>
    /\ callers = AllCallers
    /\ limits = [rx_frames |-> 0, interrupts |-> MaxInterrupts,
                 lens |-> {MAX_FRAME_SIZE}, cpus |-> {"other"},
                 lifecycle |-> "once"]

NextTwo ==
    \/ init_dma_device
    \/ \E p \in callers : \E f \in Frames(limits.lens) : transmit_packet(p, f)
    \/ \E p \in callers : transmit_copy(p)
    \/ \E p \in callers : update_lock(p)
    \/ \E p \in callers : update_w_addr(p)
    \/ \E p \in callers : update_w_len(p)
    \/ \E p \in callers : update_w_status(p)
    \/ \E p \in callers : update_w_control(p)
    \/ \E p \in callers : update_wmb(p)
    \/ \E p \in callers : update_doorbell(p)
    \/ \E p \in callers : update_advance(p)
    \/ \E p \in callers : transmit_return(p)
    \/ irq_entry
    \/ irq_ack
    \/ irq_tx_lock
    \/ irq_tx_step
    \/ irq_tx_unlock
    \/ irq_return
    \/ \E i \in Slots : device_tx_done(i)

\* The transmit path run by two threads at once, the TX completions and
\* the handler.
SpecTwo == InitTwo /\ [][NextTwo]_vars

\* The call of p is between its claim of slot idx[p] and the end of its
\* publish of it.
HoldsClaim(p) == pc[p] \in {"copy", "update"} \/ InPublish(p)

\* C33: two concurrent transmit_packet calls never hold a claim on the
\* same slot at once, and whenever the ring's lock is free count <= size
\* and (tail + count) mod size = head.
C33_DistinctSlotsClaimed ==
    /\ \A p, q \in callers :
          (p # q /\ HoldsClaim(p) /\ HoldsClaim(q)) => idx[p] # idx[q]
    /\ (tx_ring.initialized /\ tx_ring.lock = "free") =>
          /\ tx_ring.count <= tx_ring.size
          /\ (tx_ring.tail + tx_ring.count) % tx_ring.size = tx_ring.head

=============================================================================
